---- MODULE Spec2Model ----
(***************************************************************************)
(* Model of distributed.py: the job collection protocol (prepare_job,      *)
(* job_complete, DistributedCollectorNode) and the worker process manager  *)
(* (WorkerProcessManager and its HTTP endpoints).                          *)
(*                                                                         *)
(* Handlers of the aiohttp server run as coroutines of one event loop, so  *)
(* one action is the code between two points where a coroutine can be      *)
(* suspended.  A handler that finds distributed_jobs_lock held is          *)
(* suspended until it is free; a holder of the lock is not suspended while *)
(* it holds it (Queue.put on an unbounded queue returns at once).  The     *)
(* collector is suspended only in asyncio.wait_for(q.get(), timeout).      *)
(***************************************************************************)
EXTENDS Integers, Sequences, FiniteSets, TLC

\* ---------------------------------------------------------------- bounds
MaxSubmits == 2      \* requests accepted by job_complete from arbitrary clients
MaxBatch == 2        \* images in the batch of one worker (images.shape[0])
MaxIdx == 1          \* image_index of an arbitrary request ranges over 0..MaxIdx
MaxPid == 3          \* process ids handed out by the operating system: 1..MaxPid
MaxCleanups == 2     \* signals handled by one master process that run cleanup_all
MaxQueue == 2        \* items waiting on a Queue when an unbounded sender puts one more
MaxSeed == 2         \* the seed given to DistributedSeed ranges over 0..MaxSeed
MaxIdLen == 3        \* characters of a worker_id after its prefix

\* ------------------------------------------------------------ value sets
JobIds == {"j1", "j2"}
NoJobId == ""                      \* no job id
\* worker ids are strings of digits: <<1,0>> is "10", <<2>> is "2"
WorkerIds == {<<1, 0>>, <<2>>}
Collectors == {"c1", "c2"}         \* calls of DistributedCollectorNode.run (master)
IsLastFields == {"True", "False"}  \* the form field is_last, str(bool)
\* the master batch handed to the collector node (tensors are opaque tokens;
\* the tensors of the master are negative, those of workers positive)
Batches == {<<-1, -2>>}
\* asyncio.Queue objects: the g-th Queue constructed for job j is <<j, g>>
MaxGen == 1 + Cardinality(Collectors)
QueueRefs == JobIds \X (1..MaxGen)
NoQueue == <<NoJobId, 0>>
\* asyncio.Lock: not locked
Unlocked == "unlocked"
\* the history variables keep the last MaxHistory items: as many as the
\* bounded producers can send to one job
MaxHistory == Cardinality(WorkerIds) * MaxBatch + MaxSubmits

VARIABLES
    pending_jobs,     \* prompt_server.distributed_pending_jobs: job id -> Queue
    queues,           \* the asyncio.Queue objects: ref -> items not yet taken
    next_q,           \* per job id: number of asyncio.Queue objects constructed
    accepted,         \* history: ref -> the items put on that Queue (the last MaxHistory)
    distributed_jobs_lock,   \* prompt_server.distributed_jobs_lock: Unlocked or its holder
    closed,           \* history: the job ids whose collection has returned and
                      \* that got no queue (prepare_job, execute) since
    response,         \* the response of the last HTTP handler that ran
    requests,         \* number of job_complete requests of arbitrary clients
    pc,               \* where each collector call stands
    multi_job_id,     \* per collector call: its arguments ...
    enabled_workers,
    images,
    q,                \* ... and its locals
    initial_size,
    workers_done,
    worker_images,
    timed_out,
    result,
    taken,            \* history: the items this call took off a Queue, in order
                      \* (the last MaxHistory of them)
    w_pc,             \* per worker: where its execute(is_worker=True) stands
    w_job,            \* its multi_job_id
    w_batch,          \* images.shape[0]
    w_i               \* the loop index i

VARIABLES
    processes,          \* worker_manager.processes: worker id -> process info
    managed_processes,  \* config["managed_processes"] in the config file
    os_alive,           \* operating system: the pids of the running processes
    os_parent,          \* operating system: pid -> parent pid (0: none of them)
    next_pid,           \* operating system: the last pid handed out
    mresponse,          \* the response of the last manager endpoint that ran
    PSUTIL_AVAILABLE,   \* whether "import psutil" succeeded
    system,             \* platform.system()
    os_commands,        \* whether pkill / wmic can be started by subprocess.run
    master,             \* the master process: "running" or "exited"
    cleanup_count,      \* history: executions of cleanup_all by this master process
    stop_attempts,      \* history: the worker ids the last cleanup_all called stop_worker on
    stop_workers_on_master_exit,  \* config["settings"]["stop_workers_on_master_exit"]
    workers,            \* config["workers"]: worker id -> its enabled and host
    COMFYUI_MASTER_PID, \* the processes whose os.environ has COMFYUI_MASTER_PID
    auto_launch,        \* per process: what the import of this module did about
                        \* delayed_auto_launch ("none": not imported yet)
    timer_thread,       \* the master's threading.Timer thread in auto_launch_workers
    main_thread,        \* the master's launch_worker_endpoint call in progress
    kill_call,          \* the call of _kill_process_tree in progress, with the
                        \* signals it has sent
    distribute_call,    \* the last call of DistributedSeed.distribute and its result
    distributed_pending_tile_jobs  \* prompt_server.distributed_pending_tile_jobs:
                        \* the job ids of the table of distributed_upscale

jobVars == <<pending_jobs, queues, next_q, accepted, distributed_jobs_lock, closed>>
colVars == <<pc, multi_job_id, enabled_workers, images, q, initial_size,
             workers_done, worker_images, timed_out, result, taken>>
senderVars == <<w_pc, w_job, w_batch, w_i>>
osVars == <<os_alive, os_parent, next_pid>>
envVars == <<PSUTIL_AVAILABLE, system, os_commands>>
lifeVars == <<master, cleanup_count, stop_attempts, stop_workers_on_master_exit>>
startVars == <<workers, COMFYUI_MASTER_PID, auto_launch, timer_thread, main_thread>>
extraVars == <<kill_call, distribute_call, distributed_pending_tile_jobs>>
mgrVars == <<processes, managed_processes, osVars, mresponse, envVars, lifeVars, startVars,
            extraVars>>
vars == <<pending_jobs, queues, next_q, accepted, distributed_jobs_lock, closed,
          response, requests, pc, multi_job_id,
          enabled_workers, images, q, initial_size, workers_done,
          worker_images, timed_out, result, taken, w_pc, w_job, w_batch, w_i,
          processes, managed_processes, os_alive, os_parent, next_pid, mresponse,
          PSUTIL_AVAILABLE, system, os_commands, master, cleanup_count, stop_attempts,
          stop_workers_on_master_exit, workers, COMFYUI_MASTER_PID, auto_launch,
          timer_thread, main_thread, kill_call, distribute_call,
          distributed_pending_tile_jobs>>

\* ------------------------------------------------------------- responses
\* a response: the handler that answered and its status code
Resp(op, status) == [op |-> op, status |-> status]
NoResponse == Resp("none", 0)

\* --------------------------------------------------------- pure helpers
\* Python's str comparison on strings of digits (lexicographic by character)
RECURSIVE StrLess(_, _)
StrLess(a, b) ==
    IF a = <<>> THEN b # <<>>
    ELSE IF b = <<>> THEN FALSE
    ELSE IF Head(a) < Head(b) THEN TRUE
    ELSE IF Head(a) > Head(b) THEN FALSE
    ELSE StrLess(Tail(a), Tail(b))

\* mutant: the worker ids sorted by their value as numbers
RECURSIVE SortedStrNumeric(_)
SortedStrNumeric(S) ==
    IF S = {} THEN <<>>
    ELSE LET m == CHOOSE x \in S : \A y \in S :
                      x = y \/ Len(x) < Len(y) \/ (Len(x) = Len(y) /\ StrLess(x, y))
         IN <<m>> \o SortedStrNumeric(S \ {m})

\* sorted(worker_images.keys()): keys are worker id strings
RECURSIVE SortedStr(_)
SortedStr(S) ==
    IF S = {} THEN <<>>
    ELSE LET m == CHOOSE x \in S : \A y \in S : x = y \/ StrLess(x, y)
         IN <<m>> \o SortedStr(S \ {m})

\* sorted(worker_images[worker_id_str].keys()): keys are ints
RECURSIVE SortedInt(_)
SortedInt(S) ==
    IF S = {} THEN <<>>
    ELSE LET m == CHOOSE x \in S : \A y \in S : x <= y
         IN <<m>> \o SortedInt(S \ {m})

\* int(image_index) if image_index else 0
ParseIndex(has_index, k) == IF has_index THEN k ELSE 0

\* str(is_last) on the worker, .lower() == 'true' on the master
StrOfBool(b) == IF b THEN "True" ELSE "False"
Lower(field) == IF field = "True" THEN "true"
                ELSE IF field = "False" THEN "false"
                ELSE IF field = "LocalHost" THEN "localhost" ELSE field
ParseIsLast(field) == Lower(field) = "true"

\* mutant: an item replaces everything stored for its worker
BucketReplacesWorker(wi, item) ==
    (item.worker_id :> (item.image_index :> item.tensor)) @@ wi

\* worker_images[worker_id][image_index] = tensor (a later item overwrites)
Bucket(wi, item) ==
    LET inner == IF item.worker_id \in DOMAIN wi THEN wi[item.worker_id] ELSE <<>>
    IN (item.worker_id :> ((item.image_index :> item.tensor) @@ inner)) @@ wi

\* if is_last: workers_done.add(worker_id)
MarkDone(done, item) == IF item.is_last THEN done \cup {item.worker_id} ELSE done

\* mutant: the items found by the timeout drain are not stored
BucketAllDropsItems(wi, items) == wi

\* the loop over remaining_items of the timeout drain
RECURSIVE BucketAll(_, _)
BucketAll(wi, items) ==
    IF items = <<>> THEN wi ELSE BucketAll(Bucket(wi, Head(items)), Tail(items))

\* mutant: the timeout drain does not look at is_last
MarkDoneAllIgnored(done, items) == done

RECURSIVE MarkDoneAll(_, _)
MarkDoneAll(done, items) ==
    IF items = <<>> THEN done ELSE MarkDoneAll(MarkDone(done, Head(items)), Tail(items))

\* the tensors of one worker, by ascending image index
RECURSIVE TensorsOf(_, _)
TensorsOf(inner, idxs) ==
    IF idxs = <<>> THEN <<>>
    ELSE <<inner[Head(idxs)]>> \o TensorsOf(inner, Tail(idxs))

RECURSIVE WorkerTensors(_, _)
WorkerTensors(wi, ws) ==
    IF ws = <<>> THEN <<>>
    ELSE TensorsOf(wi[Head(ws)], SortedInt(DOMAIN wi[Head(ws)]))
             \o WorkerTensors(wi, Tail(ws))

\* ordered_tensors: the master's images, then the workers' by sorted id
\* (torch.cat is taken to succeed: the tensors of one job have one shape, so
\* the except branch that returns the master's images alone is not modelled)
Reorder(imgs, wi) == imgs \o WorkerTensors(wi, SortedStr(DOMAIN wi))

\* a history variable after items were added to it
Remember(log, items) ==
    LET s == log \o items
    IN IF Len(s) <= MaxHistory THEN s
       ELSE SubSeq(s, Len(s) - MaxHistory + 1, Len(s))

\* mutant: the cleanup of a job empties the whole job table
DeleteAllJobs(pj, j) == [k \in JobIds |-> NoQueue]

\* del prompt_server.distributed_pending_jobs[multi_job_id]
DeleteJob(pj, j) == [pj EXCEPT ![j] = NoQueue]

\* mutant: wait_for(q.get()) inside the "async with" block
LockHeldWhileWaiting(c) == c

\* the lock while call c waits in wait_for(q.get()): the "async with" block
\* that fetched q has been left
LockWhileWaiting(c) == Unlocked

\* "async with prompt_server.distributed_jobs_lock" entered by h without
\* being suspended
CanLock(h) == distributed_jobs_lock \in {Unlocked, h}

\* mutant: the loop ends as soon as one worker is done
LoopContinuesUntilOneDone(done, ew) == done = {}

\* the loop test of the collection loop: len(workers_done) < num_workers
LoopContinues(done, ew) == Cardinality(done) < Cardinality(ew)

\* ------------------------------------------------------------------ Init
InitCalls(on) ==
    /\ pending_jobs = [j \in JobIds |-> NoQueue]
    /\ queues = [r \in QueueRefs |-> <<>>]
    /\ next_q = [j \in JobIds |-> 0]
    /\ accepted = [r \in QueueRefs |-> <<>>]
    /\ distributed_jobs_lock = Unlocked
    /\ closed = {}
    /\ response = NoResponse
    /\ requests = 0
    /\ pc = [c \in Collectors |-> IF c \in on THEN "idle" ELSE "off"]
    /\ multi_job_id = [c \in Collectors |-> NoJobId]
    /\ enabled_workers = [c \in Collectors |-> {}]
    /\ images = [c \in Collectors |-> <<>>]
    /\ q = [c \in Collectors |-> NoQueue]
    /\ initial_size = [c \in Collectors |-> 0]
    /\ workers_done = [c \in Collectors |-> {}]
    /\ worker_images = [c \in Collectors |-> <<>>]
    /\ timed_out = [c \in Collectors |-> FALSE]
    /\ result = [c \in Collectors |-> <<>>]
    /\ taken = [c \in Collectors |-> <<>>]
    /\ w_pc = [w \in WorkerIds |-> "idle"]
    /\ w_job = [w \in WorkerIds |-> NoJobId]
    /\ w_batch = [w \in WorkerIds |-> 0]
    /\ w_i = [w \in WorkerIds |-> 0]

\* one collector call is made
InitJobs == InitCalls({"c1"})

\* -------------------------------------------------- worker process manager
ConfigWorkers == {"1", "2"}              \* the ids of config["workers"]
RequestWorkers == ConfigWorkers \cup {"3"}   \* the worker_id of a request
Pids == 1..MaxPid
Systems == {"Linux", "Windows"}
\* the master process (its workers are the processes of Pids)
MasterProc == 0
Procs == Pids \cup {MasterProc}
\* config["workers"] in file order
WorkerList == <<"1", "2">>
\* values of worker['host'] as a user types them (the UI stores no null host)
Hosts == {"LocalHost", "192.168.1.20"}

\* a value of worker_manager.processes; 'process' is whether the entry holds
\* the subprocess.Popen object, 'launching' whether the key 'launching' is
\* there (it is only ever stored as True); started_at, config and is_monitor
\* are not modelled
ProcInfo(pid, process, launching, log_file) ==
    [pid |-> pid, process |-> process, launching |-> launching, log_file |-> log_file]
\* worker_id not in self.processes
NoEntry == ProcInfo(0, FALSE, FALSE, <<>>)
\* os.path.join(log_dir, f"{safe_name}_{date_stamp}.log")
LogFile(w) == <<"logs/workers", w>>

NoManaged == [w \in ConfigWorkers |-> NoEntry]
MResp(op, status, message, pid, log_file, managed) ==
    [op |-> op, status |-> status, message |-> message, pid |-> pid,
     log_file |-> log_file, managed |-> managed]
NoMResponse == MResp("none", 0, "", 0, <<>>, NoManaged)

\* process.poll() is None, for the Popen object of pid
poll_is_None(pid, alive) == pid \in alive
\* utils.process.is_process_alive
is_process_alive(pid, alive) == pid \in alive
_is_process_running(pid, alive) == is_process_alive(pid, alive)

\* mutant: only an entry that holds the Popen object counts as running
is_running_handle_only(info, alive) == info.process /\ poll_is_None(info.pid, alive)

\* is_running as launch_worker_endpoint computes it
is_running(info, alive) ==
    IF info.process THEN poll_is_None(info.pid, alive)
    ELSE _is_process_running(info.pid, alive)

\* mutant: every entry counts as running
_check_worker_process_always(info, alive) == TRUE

\* the first component of what _check_worker_process returns
_check_worker_process(info, alive) ==
    IF info.process THEN poll_is_None(info.pid, alive)
    ELSE IF info.pid # 0 THEN _is_process_running(info.pid, alive)
    ELSE FALSE

\* the running processes whose parent is pid
Children(pid, alive) == {c \in alive : os_parent[c] = pid}
\* psutil.Process(pid).children(recursive=True)
RECURSIVE ChildrenRecursive(_, _)
ChildrenRecursive(S, alive) ==
    LET n == S \cup UNION {Children(p, alive) : p \in S}
    IN IF n = S THEN S ELSE ChildrenRecursive(n, alive)

\* _kill_process_tree with psutil: [ok |-> what it returns, alive |-> the
\* processes running afterwards]; SIGKILL ends a process; an exception other
\* than NoSuchProcess is not modelled
KillTreePsutil(pid, alive) ==
    IF pid \notin alive
    THEN [ok |-> FALSE, alive |-> alive]
    ELSE [ok |-> TRUE, alive |-> alive \ ChildrenRecursive({pid}, alive)]

\* _kill_process_tree, the OS-specific commands
KillTreeOsCommands(pid, alive) ==
    IF ~os_commands
    THEN [ok |-> FALSE, alive |-> alive]          \* subprocess.run raises
    ELSE LET a1 == alive \ Children(pid, alive)   \* taskkill per child / pkill -P
         IN IF system = "Windows"
            THEN IF pid \in a1                    \* taskkill /F /PID pid /T
                 THEN [ok |-> TRUE, alive |-> a1 \ ChildrenRecursive({pid}, a1)]
                 ELSE [ok |-> FALSE, alive |-> a1]
            ELSE IF pid \in a1                    \* os.kill(pid, SIGKILL)
                 THEN [ok |-> TRUE, alive |-> a1 \ {pid}]
                 ELSE [ok |-> FALSE, alive |-> a1]

_kill_process_tree(pid, alive) ==
    IF PSUTIL_AVAILABLE THEN KillTreePsutil(pid, alive)
    ELSE KillTreeOsCommands(pid, alive)

\* utils.process.terminate_process(process, timeout): terminate, wait, kill
terminate_process(pid, alive) == alive \ {pid}

\* mutant: save_processes writes every entry of the registry
save_processes_all(procs, alive) ==
    [w \in ConfigWorkers |->
        IF procs[w] # NoEntry
        THEN ProcInfo(procs[w].pid, FALSE, procs[w].launching, procs[w].log_file)
        ELSE NoEntry]

\* save_processes: what it writes to config["managed_processes"]
save_processes(procs, alive) ==
    [w \in ConfigWorkers |->
        IF procs[w] # NoEntry /\ _check_worker_process(procs[w], alive)
        THEN ProcInfo(procs[w].pid, FALSE, procs[w].launching, procs[w].log_file)
        ELSE NoEntry]

\* mutant: load_processes restores every persisted entry
load_processes_keeps_all(saved, alive) ==
    [w \in ConfigWorkers |->
        IF saved[w] # NoEntry
        THEN ProcInfo(saved[w].pid, FALSE, FALSE, saved[w].log_file)
        ELSE NoEntry]

\* load_processes: the entries it puts into self.processes
load_processes(saved, alive) ==
    [w \in ConfigWorkers |->
        IF saved[w] # NoEntry /\ saved[w].pid # 0 /\ _is_process_running(saved[w].pid, alive)
        THEN ProcInfo(saved[w].pid, FALSE, FALSE, saved[w].log_file)
        ELSE NoEntry]

\* get_managed_workers: the mapping it returns ...
managed(procs, alive) ==
    [w \in ConfigWorkers |->
        IF procs[w] # NoEntry /\ _check_worker_process(procs[w], alive)
        THEN ProcInfo(procs[w].pid, FALSE, procs[w].launching, procs[w].log_file)
        ELSE NoEntry]
\* ... and self.processes after it
managed_kept(procs, alive) ==
    [w \in ConfigWorkers |->
        IF procs[w] # NoEntry /\ _check_worker_process(procs[w], alive)
        THEN procs[w] ELSE NoEntry]

\* mutant: the entry of a launched worker without 'launching'
LaunchedInfoNotLaunching(pid, w) == ProcInfo(pid, TRUE, FALSE, LogFile(w))

\* launch_worker: self.processes[worker_id] = {...}
LaunchedInfo(pid, w) == ProcInfo(pid, TRUE, TRUE, LogFile(w))
\* mutant: launch_worker hands its own environment to the process unchanged
EnvInherited(marked, pid) == IF MasterProc \in marked THEN marked \cup {pid} ELSE marked

\* env = os.environ.copy(); env['COMFYUI_MASTER_PID'] = str(os.getpid());
\* Popen(..., env=env): the processes with the marker once pid is started
LaunchEnv(marked, pid) == marked \cup {pid}

\* "if not os.environ.get('COMFYUI_MASTER_PID'): delayed_auto_launch()" in a
\* process that imports this module
ModuleImport(has_marker) == IF has_marker THEN "skipped" ELSE "scheduled"

\* a thread that is not inside an operation
IdleThread == [pc |-> "idle", i |-> 0, w |-> "", pid |-> 0]

\* no call of _kill_process_tree is in progress. children: what
\* parent.children(recursive=True) returned; terminated, killed: the children
\* on which terminate() and kill() were called; alive: the second component
\* of psutil.wait_procs; parent: the signals sent to the process pid itself
NoKill ==
    [pc |-> "idle", pid |-> 0, children |-> {}, terminated |-> {}, waited |-> FALSE,
     alive |-> {}, killed |-> {}, parent |-> <<>>, ret |-> FALSE]

\* DistributedSeed.distribute has not been called (a str is the sequence of
\* its characters)
NoDistribute == [seed |-> 0, is_worker |-> FALSE, worker_id |-> <<>>, ret |-> 0]

\* the module has been imported by a master whose environment has the marker
\* or not; config["workers"] is cfg
InitStart(has_marker, cfg) ==
    /\ workers = cfg
    /\ COMFYUI_MASTER_PID = IF has_marker THEN {MasterProc} ELSE {}
    /\ auto_launch = [p \in Procs |->
                         IF p = MasterProc THEN ModuleImport(has_marker) ELSE "none"]
    /\ timer_thread = IdleThread
    /\ main_thread = IdleThread
    /\ kill_call = NoKill
    /\ distribute_call = NoDistribute
    /\ distributed_pending_tile_jobs = {}

\* config["workers"]: worker "1" runs on this host, worker "2" on another one;
\* both are enabled
DefaultWorkers ==
    [w \in ConfigWorkers |->
        [id |-> w, enabled |-> TRUE,
         host |-> IF w = "1" THEN "localhost" ELSE "192.168.1.20"]]

\* WorkerProcessManager.__init__ with no config["managed_processes"]; no
\* process of interest runs yet
InitRegistry ==
    /\ processes = [w \in ConfigWorkers |-> NoEntry]
    /\ managed_processes = [w \in ConfigWorkers |-> NoEntry]
    /\ os_alive = {}
    /\ os_parent = [p \in Pids |-> 0]
    /\ next_pid = 0
    /\ mresponse = NoMResponse
    /\ master = "running"
    /\ cleanup_count = 0
    /\ stop_attempts = {}

\* the master proper (no marker in its environment) with the default config
InitManager == InitRegistry /\ InitStart(FALSE, DefaultWorkers)

\* the master runs on Linux with psutil installed
Init ==
    /\ InitJobs
    /\ InitManager
    /\ PSUTIL_AVAILABLE = TRUE
    /\ system = "Linux"
    /\ os_commands = TRUE
    /\ stop_workers_on_master_exit = TRUE

\* --------------------------------------------------------------- actions
\* prompt_server.distributed_pending_jobs[multi_job_id] = asyncio.Queue()
NewQueue(j) ==
    /\ next_q[j] < MaxGen
    /\ pending_jobs' = [pending_jobs EXCEPT ![j] = <<j, next_q[j] + 1>>]
    /\ next_q' = [next_q EXCEPT ![j] = @ + 1]

\* mutant: prepare_job always installs a fresh Queue
PrepareJobReplaces(j) ==
    /\ CanLock("prepare_job")
    /\ NewQueue(j)
    /\ closed' = closed \ {j}
    /\ response' = Resp("prepare_job", 200)
    /\ UNCHANGED <<queues, accepted, distributed_jobs_lock>>

\* the body of prepare_job_endpoint (every request modelled carries a
\* multi_job_id, and every job_complete request an image)
PrepareJob(j) ==
    /\ CanLock("prepare_job")
    /\ IF pending_jobs[j] = NoQueue
       THEN NewQueue(j)
       ELSE UNCHANGED <<pending_jobs, next_q>>
    /\ closed' = closed \ {j}
    /\ response' = Resp("prepare_job", 200)
    /\ UNCHANGED <<queues, accepted, distributed_jobs_lock>>

\* POST /distributed/prepare_job
prepare_job_endpoint(j) ==
    /\ PrepareJob(j)
    /\ UNCHANGED <<requests, colVars, senderVars, mgrVars>>

\* mutant: job_complete creates the Queue of an unknown job, as execute does
JobCompleteCreatesQueue(j, w, has_index, k, last_field) ==
    LET isnew == pending_jobs[j] = NoQueue
        ref == IF isnew THEN <<j, next_q[j] + 1>> ELSE pending_jobs[j]
        item == [worker_id |-> w,
                 image_index |-> ParseIndex(has_index, k),
                 tensor |-> Len(accepted[ref]) + 1,
                 is_last |-> ParseIsLast(last_field)]
    IN /\ CanLock("job_complete")
       /\ IF isnew THEN NewQueue(j) ELSE UNCHANGED <<pending_jobs, next_q>>
       /\ queues' = [queues EXCEPT ![ref] = Append(@, item)]
       /\ accepted' = [accepted EXCEPT ![ref] = Remember(@, <<item>>)]
       /\ response' = Resp("job_complete", 200)
       /\ UNCHANGED <<distributed_jobs_lock, closed>>

\* the body of job_complete_endpoint; the tensor of a request is named by its
\* rank among the requests accepted on the Queue
JobComplete(j, w, has_index, k, last_field) ==
    /\ CanLock("job_complete")
    /\ IF pending_jobs[j] # NoQueue
       THEN LET ref == pending_jobs[j]
                item == [worker_id |-> w,
                         image_index |-> ParseIndex(has_index, k),
                         tensor |-> Len(accepted[ref]) + 1,
                         is_last |-> ParseIsLast(last_field)]
            IN /\ queues' = [queues EXCEPT ![ref] = Append(@, item)]
               /\ accepted' = [accepted EXCEPT ![ref] = Remember(@, <<item>>)]
               /\ response' = Resp("job_complete", 200)
               /\ UNCHANGED <<pending_jobs, next_q, distributed_jobs_lock, closed>>
       ELSE /\ response' = Resp("job_complete", 404)
            /\ UNCHANGED jobVars

\* POST /distributed/job_complete from an arbitrary client
job_complete_endpoint(j, w, has_index, k, last_field) ==
    /\ requests < MaxSubmits
    /\ has_index \/ k = 0
    /\ JobComplete(j, w, has_index, k, last_field)
    /\ requests' = IF response'.status = 200 THEN requests + 1 ELSE requests
    /\ UNCHANGED <<colVars, senderVars, mgrVars>>

\* execute(is_worker=True) is entered on worker w with a batch of n images
execute_worker(w, j, n) ==
    /\ w_pc[w] = "idle"
    /\ w_pc' = [w_pc EXCEPT ![w] = "sending"]
    /\ w_job' = [w_job EXCEPT ![w] = j]
    /\ w_batch' = [w_batch EXCEPT ![w] = n]
    /\ w_i' = [w_i EXCEPT ![w] = 0]
    /\ UNCHANGED <<jobVars, response, requests, colVars, mgrVars>>

\* one turn of its loop: send_image_to_master(images[i], ..., i, worker_id,
\* is_last); a failed request is logged and the loop goes on
send_image_to_master(w) ==
    /\ w_pc[w] = "sending"
    /\ JobComplete(w_job[w], w, TRUE, w_i[w], StrOfBool(w_i[w] = w_batch[w] - 1))
    /\ w_i' = [w_i EXCEPT ![w] = @ + 1]
    /\ w_pc' = [w_pc EXCEPT ![w] = IF w_i[w] + 1 = w_batch[w] THEN "done" ELSE "sending"]
    /\ UNCHANGED <<w_job, w_batch, requests, colVars, mgrVars>>

\* cleanup of the job queue, reorder, return (the end of execute)
Finish(c, wi, done, qs, items, timeout) ==
    /\ pending_jobs' = DeleteJob(pending_jobs, multi_job_id[c])
    /\ distributed_jobs_lock' = Unlocked
    /\ closed' = closed \cup {multi_job_id[c]}
    /\ queues' = qs
    /\ taken' = [taken EXCEPT ![c] = Remember(@, items)]
    /\ worker_images' = [worker_images EXCEPT ![c] = wi]
    /\ workers_done' = [workers_done EXCEPT ![c] = done]
    /\ timed_out' = [timed_out EXCEPT ![c] = timeout]
    /\ result' = [result EXCEPT ![c] = Reorder(images[c], wi)]
    /\ pc' = [pc EXCEPT ![c] = "done"]
    /\ UNCHANGED <<next_q, accepted, response, requests, multi_job_id, enabled_workers,
                   images, q, initial_size, senderVars, mgrVars>>

\* mutant: the early return hands the images back in reverse order
ReturnImagesReversed(c, imgs) ==
    /\ result' = [result EXCEPT ![c] = [i \in 1..Len(imgs) |-> imgs[Len(imgs) + 1 - i]]]
    /\ pc' = [pc EXCEPT ![c] = "done"]
    /\ UNCHANGED <<pending_jobs, next_q, q, initial_size, distributed_jobs_lock>>

\* the early return of execute for an empty enabled_worker_ids
ReturnImages(c, imgs) ==
    /\ result' = [result EXCEPT ![c] = imgs]
    /\ pc' = [pc EXCEPT ![c] = "done"]
    /\ UNCHANGED <<pending_jobs, next_q, q, initial_size, distributed_jobs_lock>>

\* execute (master mode) up to the first wait
execute_begin(c, j, ew, imgs) ==
    /\ pc[c] = "idle"
    /\ multi_job_id' = [multi_job_id EXCEPT ![c] = j]
    /\ enabled_workers' = [enabled_workers EXCEPT ![c] = ew]
    /\ images' = [images EXCEPT ![c] = imgs]
    /\ IF ew = {}
       THEN /\ ReturnImages(c, imgs)
            /\ closed' = closed \cup {j}
       ELSE /\ CanLock(c)
            /\ IF pending_jobs[j] = NoQueue
               THEN NewQueue(j) /\ closed' = closed \ {j}
               ELSE UNCHANGED <<pending_jobs, next_q, closed>>
            /\ distributed_jobs_lock' = LockWhileWaiting(c)
            /\ q' = [q EXCEPT ![c] = pending_jobs'[j]]
            /\ initial_size' = [initial_size EXCEPT ![c] = Len(queues[pending_jobs'[j]])]
            /\ pc' = [pc EXCEPT ![c] = "waiting"]
            /\ UNCHANGED result
    /\ UNCHANGED <<queues, accepted, response, requests, workers_done, worker_images,
                   timed_out, taken, senderVars, mgrVars>>

\* wait_for(q.get()) returns an item: one turn of the collection loop
execute_get(c) ==
    /\ pc[c] = "waiting"
    /\ queues[q[c]] # <<>>
    /\ CanLock(c)
    /\ LET item == Head(queues[q[c]])
           qs == [queues EXCEPT ![q[c]] = Tail(@)]
           wi == Bucket(worker_images[c], item)
           done == MarkDone(workers_done[c], item)
       IN IF LoopContinues(done, enabled_workers[c])
          THEN /\ queues' = qs
               /\ taken' = [taken EXCEPT ![c] = Remember(@, <<item>>)]
               /\ worker_images' = [worker_images EXCEPT ![c] = wi]
               /\ workers_done' = [workers_done EXCEPT ![c] = done]
               /\ IF pending_jobs[multi_job_id[c]] = NoQueue
                  THEN /\ pc' = [pc EXCEPT ![c] = "failed"]     \* KeyError
                       /\ distributed_jobs_lock' = Unlocked
                       /\ UNCHANGED q
                  ELSE /\ q' = [q EXCEPT ![c] = pending_jobs[multi_job_id[c]]]
                       /\ distributed_jobs_lock' = LockWhileWaiting(c)
                       /\ UNCHANGED pc
               /\ UNCHANGED <<pending_jobs, next_q, accepted, closed, response, requests,
                              multi_job_id,
                              enabled_workers, images, initial_size, timed_out,
                              result, senderVars, mgrVars>>
          ELSE Finish(c, wi, done, qs, <<item>>, FALSE)

\* wait_for raises asyncio.TimeoutError: no item came within the timeout
execute_timeout(c) ==
    /\ pc[c] = "waiting"
    /\ queues[q[c]] = <<>>
    /\ pc' = [pc EXCEPT ![c] = "timed_out"]
    /\ UNCHANGED <<jobVars, response, requests, multi_job_id, enabled_workers, images, q,
                   initial_size, workers_done, worker_images, timed_out, result,
                   taken, senderVars, mgrVars>>

\* the except branch: drain what is on the job's queue now, then finish
execute_drain(c) ==
    /\ pc[c] = "timed_out"
    /\ CanLock(c)
    /\ LET final_q == pending_jobs[multi_job_id[c]]
           remaining_items == IF final_q = NoQueue THEN <<>> ELSE queues[final_q]
           qs == IF final_q = NoQueue THEN queues
                 ELSE [queues EXCEPT ![final_q] = <<>>]
       IN Finish(c, BucketAll(worker_images[c], remaining_items),
                 MarkDoneAll(workers_done[c], remaining_items), qs,
                 remaining_items, TRUE)

Collect ==
    \/ \E c \in Collectors, j \in JobIds, ew \in SUBSET WorkerIds, imgs \in Batches :
          execute_begin(c, j, ew, imgs)
    \/ \E c \in Collectors : execute_get(c)
    \/ \E c \in Collectors : execute_timeout(c)
    \/ \E c \in Collectors : execute_drain(c)

\* arbitrary clients of the two endpoints, one collector call
Next ==
    \/ \E j \in JobIds : prepare_job_endpoint(j)
    \/ \E j \in JobIds, w \in WorkerIds, has_index \in BOOLEAN,
          k \in 0..MaxIdx, last_field \in IsLastFields :
            job_complete_endpoint(j, w, has_index, k, last_field)
    \/ Collect

Spec == Init /\ [][Next]_vars

\* the repository's own producers: every worker runs execute(is_worker=True)
NextWorkers ==
    \/ \E j \in JobIds : prepare_job_endpoint(j)
    \/ \E w \in WorkerIds, j \in JobIds, n \in 1..MaxBatch : execute_worker(w, j, n)
    \/ \E w \in WorkerIds : send_image_to_master(w)
    \/ Collect

SpecWorkers == Init /\ [][NextWorkers]_vars

\* the worker that sends without end
EndlessWorker == <<2>>

\* two collector calls are made, for the same job id or not
InitConcurrent ==
    /\ InitCalls(Collectors)
    /\ InitManager
    /\ PSUTIL_AVAILABLE = TRUE
    /\ system = "Linux"
    /\ os_commands = TRUE
    /\ stop_workers_on_master_exit = TRUE

\* the clients send the fragments of one worker
NextConcurrent ==
    \/ \E j \in JobIds : prepare_job_endpoint(j)
    \/ \E j \in JobIds, k \in 0..MaxIdx, is_last \in BOOLEAN :
          job_complete_endpoint(j, EndlessWorker, TRUE, k, StrOfBool(is_last))
    \/ Collect

SpecConcurrent == InitConcurrent /\ [][NextConcurrent]_vars

\* GET /distributed/queue_status/{job_id}: "exists = job_id in
\* prompt_server.distributed_pending_tile_jobs"
queue_status_endpoint(j) ==
    /\ response' = [op |-> "queue_status", status |-> 200, job_id |-> j,
                    exists |-> j \in distributed_pending_tile_jobs]
    /\ UNCHANGED <<jobVars, requests, colVars, senderVars, mgrVars>>

\* distributed_upscale (another module of the package) adds a job id to its
\* table of tile jobs or removes one
distributed_upscale(j) ==
    /\ distributed_pending_tile_jobs' =
          IF j \in distributed_pending_tile_jobs
          THEN distributed_pending_tile_jobs \ {j}
          ELSE distributed_pending_tile_jobs \cup {j}
    /\ UNCHANGED <<jobVars, response, requests, colVars, senderVars, processes,
                   managed_processes, osVars, mresponse, envVars, lifeVars, startVars,
                   kill_call, distribute_call>>

\* the clients of the job table, the collector call and the status endpoint
NextStatus ==
    \/ \E j \in JobIds : prepare_job_endpoint(j)
    \/ \E j \in JobIds, w \in WorkerIds, has_index \in BOOLEAN,
          k \in 0..MaxIdx, last_field \in IsLastFields :
            job_complete_endpoint(j, w, has_index, k, last_field)
    \/ \E j \in JobIds : queue_status_endpoint(j)
    \/ \E j \in JobIds : distributed_upscale(j)
    \/ Collect

SpecStatus == Init /\ [][NextStatus]_vars

\* a client that sends fragment after fragment for job j as worker w and
\* never sets is_last (POST /distributed/job_complete, any number of times)
endless_sender(j, w) ==
    /\ pending_jobs[j] # NoQueue
    /\ Len(queues[pending_jobs[j]]) < MaxQueue
    /\ JobComplete(j, w, TRUE, 0, "False")
    /\ UNCHANGED <<requests, colVars, senderVars, mgrVars>>


NextEndless ==
    \/ \E j \in JobIds : prepare_job_endpoint(j)
    \/ \E j \in JobIds : endless_sender(j, EndlessWorker)
    \/ Collect

\* the event loop resumes a collector call whose wait has ended, by an item
\* or by the timeout (WORKER_JOB_TIMEOUT is finite)
SpecEndless ==
    /\ Init
    /\ [][NextEndless]_vars
    /\ \A c \in Collectors :
          /\ WF_vars(execute_get(c))
          /\ WF_vars(execute_timeout(c))
          /\ WF_vars(execute_drain(c))

\* ------------------------------------------- worker process manager: actions
\* POST /distributed/launch_worker; popen_ok: whether launch_worker gets to
\* the end (main.py is there and subprocess.Popen starts the process)
launch_worker_endpoint(w, popen_ok) ==
    /\ IF w \notin ConfigWorkers
       THEN /\ mresponse' = MResp("launch_worker", 404, "not found", 0, <<>>, NoManaged)
            /\ UNCHANGED <<processes, managed_processes, osVars, COMFYUI_MASTER_PID>>
       ELSE IF processes[w] # NoEntry /\ is_running(processes[w], os_alive)
       THEN /\ mresponse' = MResp("launch_worker", 409, "Worker already running (managed by UI)",
                                  processes[w].pid, processes[w].log_file, NoManaged)
            /\ UNCHANGED <<processes, managed_processes, osVars, COMFYUI_MASTER_PID>>
       ELSE LET evicted == [processes EXCEPT ![w] = NoEntry]
                saved == IF processes[w] # NoEntry
                         THEN save_processes(evicted, os_alive)
                         ELSE managed_processes
            IN IF popen_ok
               THEN /\ next_pid < MaxPid
                    /\ next_pid' = next_pid + 1
                    /\ os_alive' = os_alive \cup {next_pid'}
                    /\ os_parent' = [os_parent EXCEPT ![next_pid'] = 0]
                    /\ COMFYUI_MASTER_PID' = LaunchEnv(COMFYUI_MASTER_PID, next_pid')
                    /\ processes' = [evicted EXCEPT ![w] = LaunchedInfo(next_pid', w)]
                    /\ managed_processes' = save_processes(processes', os_alive')
                    /\ mresponse' = MResp("launch_worker", 200, "launched",
                                          next_pid', LogFile(w), NoManaged)
               ELSE /\ processes' = evicted
                    /\ managed_processes' = saved
                    /\ mresponse' = MResp("launch_worker", 500, "Failed to launch worker",
                                          0, <<>>, NoManaged)
                    /\ UNCHANGED <<osVars, COMFYUI_MASTER_PID>>
    /\ UNCHANGED <<envVars, extraVars, workers, auto_launch, timer_thread, main_thread, lifeVars,
                   jobVars, response, requests, colVars, senderVars>>

\* stop_worker run with self.processes = procs while the processes of alive
\* run: [success, message, processes, alive, save]
stop_worker_at(w, procs, alive) ==
    IF w \notin ConfigWorkers \/ procs[w] = NoEntry
    THEN [success |-> FALSE, message |-> "Worker not managed by UI",
          processes |-> procs, alive |-> alive, save |-> FALSE]
    ELSE LET info == procs[w]
             evicted == [procs EXCEPT ![w] = NoEntry]
             killed == _kill_process_tree(info.pid, alive)
         IN IF ~info.process
            THEN IF killed.ok
                 THEN [success |-> TRUE, message |-> "Worker stopped",
                       processes |-> evicted, alive |-> killed.alive, save |-> TRUE]
                 ELSE [success |-> FALSE, message |-> "Failed to stop worker process",
                       processes |-> procs, alive |-> killed.alive, save |-> FALSE]
            ELSE IF ~poll_is_None(info.pid, alive)
            THEN [success |-> FALSE, message |-> "Worker already stopped",
                  processes |-> evicted, alive |-> alive, save |-> TRUE]
            ELSE IF killed.ok
            THEN [success |-> TRUE, message |-> "Worker stopped",
                  processes |-> evicted, alive |-> killed.alive, save |-> TRUE]
            ELSE [success |-> TRUE, message |-> "Worker stopped (fallback)",
                  processes |-> evicted,
                  alive |-> terminate_process(info.pid, killed.alive), save |-> TRUE]

\* mutant: stop_worker persists the registry also for a worker it does not manage
stop_worker_saves_unmanaged(w) ==
    [stop_worker_at(w, processes, os_alive) EXCEPT !.save = TRUE]

\* stop_worker in the current state
stop_worker(w) == stop_worker_at(w, processes, os_alive)

\* POST /distributed/stop_worker
stop_worker_endpoint(w) ==
    /\ LET r == stop_worker(w)
       IN /\ processes' = r.processes
          /\ os_alive' = r.alive
          /\ managed_processes' = IF r.save THEN save_processes(r.processes, r.alive)
                                  ELSE managed_processes
          /\ mresponse' = MResp("stop_worker",
                                IF r.success THEN 200
                                ELSE IF r.message = "Worker not managed by UI" THEN 404
                                ELSE 409,
                                r.message, 0, <<>>, NoManaged)
    /\ UNCHANGED <<os_parent, next_pid, envVars, extraVars, startVars, lifeVars, jobVars, response, requests, colVars,
                   senderVars>>

\* GET /distributed/managed_workers
get_managed_workers_endpoint ==
    /\ processes' = managed_kept(processes, os_alive)
    /\ mresponse' = MResp("managed_workers", 200, "success", 0, <<>>,
                          managed(processes, os_alive))
    /\ UNCHANGED <<managed_processes, osVars, envVars, extraVars, startVars, lifeVars, jobVars, response,
                   requests, colVars, senderVars>>

\* mutant: clear_launching removes the entry instead of its 'launching' key
clear_launching_evicts(w) ==
    /\ IF w \in ConfigWorkers /\ processes[w] # NoEntry /\ processes[w].launching
       THEN /\ processes' = [processes EXCEPT ![w] = NoEntry]
            /\ managed_processes' = save_processes(processes', os_alive)
       ELSE UNCHANGED <<processes, managed_processes>>
    /\ mresponse' = MResp("clear_launching", 200, "success", 0, <<>>, NoManaged)
    /\ UNCHANGED <<osVars, envVars, extraVars, startVars, lifeVars, jobVars, response, requests, colVars,
                   senderVars>>

\* POST /distributed/worker/clear_launching
clear_launching_state(w) ==
    /\ IF w \in ConfigWorkers /\ processes[w] # NoEntry /\ processes[w].launching
       THEN /\ processes' = [processes EXCEPT ![w].launching = FALSE]
            /\ managed_processes' = save_processes(processes', os_alive)
       ELSE UNCHANGED <<processes, managed_processes>>
    /\ mresponse' = MResp("clear_launching", 200, "success", 0, <<>>, NoManaged)
    /\ UNCHANGED <<osVars, envVars, extraVars, startVars, lifeVars, jobVars, response, requests, colVars,
                   senderVars>>

\* the master ends without stopping its workers and is started again:
\* worker_manager = WorkerProcessManager() loads the persisted entries
master_restart ==
    /\ processes' = load_processes(managed_processes, os_alive)
    /\ mresponse' = NoMResponse
    /\ master' = "running"
    /\ cleanup_count' = 0
    /\ stop_attempts' = {}
    /\ auto_launch' = [auto_launch EXCEPT
                          ![MasterProc] = ModuleImport(MasterProc \in COMFYUI_MASTER_PID)]
    /\ timer_thread' = IdleThread
    /\ main_thread' = IdleThread
    /\ UNCHANGED <<managed_processes, osVars, envVars, extraVars, workers, COMFYUI_MASTER_PID,
                   stop_workers_on_master_exit,
                   jobVars, response, requests, colVars, senderVars>>

\* operating system: a running process starts a child process, which gets
\* the environment of its parent
os_fork(p) ==
    /\ p \in os_alive
    /\ next_pid < MaxPid
    /\ next_pid' = next_pid + 1
    /\ os_alive' = os_alive \cup {next_pid'}
    /\ os_parent' = [os_parent EXCEPT ![next_pid'] = p]
    /\ COMFYUI_MASTER_PID' = IF p \in COMFYUI_MASTER_PID
                             THEN COMFYUI_MASTER_PID \cup {next_pid'}
                             ELSE COMFYUI_MASTER_PID
    /\ UNCHANGED <<processes, managed_processes, mresponse, envVars, extraVars, workers, auto_launch,
                   timer_thread, main_thread, lifeVars, jobVars,
                   response, requests, colVars, senderVars>>

\* operating system: a running process ends by itself; on Linux its children
\* get another parent, on Windows they keep the parent pid
os_exit(p) ==
    /\ p \in os_alive
    /\ os_alive' = os_alive \ {p}
    /\ os_parent' = IF system = "Windows" THEN os_parent
                    ELSE [c \in Pids |-> IF os_parent[c] = p THEN 0 ELSE os_parent[c]]
    /\ UNCHANGED <<next_pid, processes, managed_processes, mresponse, envVars, extraVars, startVars, lifeVars,
                   jobVars, response, requests, colVars, senderVars>>

\* --------------------------------------- start and shutdown of the master
\* the entry of worker w in config["workers"]
WorkerConfig(w) == workers[w]
\* auto_launch_workers: host in ['localhost', '127.0.0.1', '', None]
IsLocalHost(host) == host \in {"localhost", "127.0.0.1", ""}
Signals == {"SIGINT", "SIGTERM", "SIGHUP"}

\* list(self.processes.keys()): the ids of the registry in insertion order,
\* which is the order of their pids
RECURSIVE RegistryKeys(_)
RegistryKeys(procs) ==
    LET ids == {w \in ConfigWorkers : procs[w] # NoEntry}
    IN IF ids = {} THEN <<>>
       ELSE LET w == CHOOSE x \in ids : \A y \in ids : procs[x].pid <= procs[y].pid
            IN <<w>> \o RegistryKeys([procs EXCEPT ![w] = NoEntry])

\* mutant: the loop of cleanup_all ends at the first worker it cannot stop
RECURSIVE StopAllUntilFailure(_, _, _, _)
StopAllUntilFailure(ws, procs, alive, attempted) ==
    IF ws = <<>>
    THEN [processes |-> procs, alive |-> alive, attempted |-> attempted]
    ELSE LET r == stop_worker_at(Head(ws), procs, alive)
         IN IF r.success
            THEN StopAllUntilFailure(Tail(ws), r.processes, r.alive,
                                     attempted \cup {Head(ws)})
            ELSE [processes |-> r.processes, alive |-> r.alive,
                  attempted |-> attempted \cup {Head(ws)}]

\* the loop of cleanup_all: stop_worker for every id of ws, one after the other
RECURSIVE StopAll(_, _, _, _)
StopAll(ws, procs, alive, attempted) ==
    IF ws = <<>>
    THEN [processes |-> procs, alive |-> alive, attempted |-> attempted]
    ELSE LET r == stop_worker_at(Head(ws), procs, alive)
         IN StopAll(Tail(ws), r.processes, r.alive, attempted \cup {Head(ws)})

\* cleanup_all; it ends by writing config['managed_processes'] = {}
cleanup_all ==
    LET r == StopAll(RegistryKeys(processes), processes, os_alive, {})
    IN /\ processes' = r.processes
       /\ os_alive' = r.alive
       /\ stop_attempts' = r.attempted
       /\ managed_processes' = NoManaged
       /\ cleanup_count' = cleanup_count + 1

\* mutant: the handler stops the workers whatever the setting is
cleanup_on_exit_always == cleanup_all

\* cleanup_on_exit, the handler of the signals and the atexit hook
cleanup_on_exit ==
    IF stop_workers_on_master_exit
    THEN cleanup_all
    ELSE /\ managed_processes' = save_processes(processes, os_alive)
         /\ UNCHANGED <<processes, os_alive, stop_attempts, cleanup_count>>

\* the master gets a signal: the handler runs and returns, the master goes on
signal_handler(sig) ==
    /\ master = "running"
    /\ sig = "SIGHUP" => system # "Windows"
    /\ cleanup_count < MaxCleanups
    /\ cleanup_on_exit
    /\ UNCHANGED <<master, os_parent, next_pid, mresponse, envVars, extraVars, startVars,
                   stop_workers_on_master_exit, jobVars, response, requests, colVars,
                   senderVars>>

\* the interpreter of the master exits: the atexit hook runs
atexit_hook ==
    /\ master = "running"
    /\ cleanup_on_exit
    /\ master' = "exited"
    /\ UNCHANGED <<os_parent, next_pid, mresponse, envVars, extraVars, startVars, stop_workers_on_master_exit,
                   jobVars, response, requests, colVars, senderVars>>

\* mutant: an exception of launch_worker ends the loop of auto_launch_workers
RECURSIVE AutoLaunchAbortsOnFailure(_, _, _)
AutoLaunchAbortsOnFailure(ws, st, popen_ok) ==
    IF ws = <<>> THEN st
    ELSE LET w == Head(ws)
             worker == WorkerConfig(w)
         IN IF ~worker.enabled \/ ~IsLocalHost(Lower(worker.host))
            THEN AutoLaunchAbortsOnFailure(Tail(ws), st, popen_ok)
            ELSE IF st.processes[w] # NoEntry
                    /\ _is_process_running(st.processes[w].pid, st.alive)
            THEN AutoLaunchAbortsOnFailure(Tail(ws), st, popen_ok)
            ELSE IF ~popen_ok[w]
            THEN st
            ELSE IF st.next_pid >= MaxPid
            THEN [st EXCEPT !.feasible = FALSE]
            ELSE AutoLaunchAbortsOnFailure(Tail(ws),
                            [st EXCEPT !.processes[w] = LaunchedInfo(st.next_pid + 1, w),
                                       !.alive = @ \cup {st.next_pid + 1},
                                       !.next_pid = @ + 1,
                                       !.marked = LaunchEnv(@, st.next_pid + 1),
                                       !.launched = @ \cup {st.next_pid + 1}],
                            popen_ok)

\* the loop of auto_launch_workers over the workers ws of the config; st is
\* [processes, alive, next_pid, marked, launched, feasible], popen_ok[w]
\* whether launch_worker(w) gets to its end
RECURSIVE AutoLaunch(_, _, _)
AutoLaunch(ws, st, popen_ok) ==
    IF ws = <<>> THEN st
    ELSE LET w == Head(ws)
             worker == WorkerConfig(w)
         IN IF ~worker.enabled \/ ~IsLocalHost(Lower(worker.host))
            THEN AutoLaunch(Tail(ws), st, popen_ok)
            ELSE IF st.processes[w] # NoEntry
                    /\ _is_process_running(st.processes[w].pid, st.alive)
            THEN AutoLaunch(Tail(ws), st, popen_ok)
            ELSE IF ~popen_ok[w]
            THEN AutoLaunch(Tail(ws), st, popen_ok)
            ELSE IF st.next_pid >= MaxPid
            THEN [st EXCEPT !.feasible = FALSE]
            ELSE AutoLaunch(Tail(ws),
                            [st EXCEPT !.processes[w] = LaunchedInfo(st.next_pid + 1, w),
                                       !.alive = @ \cup {st.next_pid + 1},
                                       !.next_pid = @ + 1,
                                       !.marked = LaunchEnv(@, st.next_pid + 1),
                                       !.launched = @ \cup {st.next_pid + 1}],
                            popen_ok)

\* auto_launch_workers with settings.auto_launch_workers set, run by the
\* timer that delayed_auto_launch has started, without a request or a signal
\* being handled in between
auto_launch_workers(popen_ok) ==
    /\ master = "running"
    /\ auto_launch[MasterProc] = "scheduled"
    /\ timer_thread.pc = "idle"
    /\ auto_launch' = [auto_launch EXCEPT ![MasterProc] = "fired"]
    /\ LET st == AutoLaunch(WorkerList,
                            [processes |-> processes, alive |-> os_alive,
                             next_pid |-> next_pid, marked |-> COMFYUI_MASTER_PID,
                             launched |-> {}, feasible |-> TRUE],
                            popen_ok)
       IN /\ st.feasible
          /\ processes' = st.processes
          /\ os_alive' = st.alive
          /\ next_pid' = st.next_pid
          /\ COMFYUI_MASTER_PID' = st.marked
          /\ os_parent' = [p \in Pids |-> IF p \in st.launched THEN 0 ELSE os_parent[p]]
          /\ managed_processes' = IF st.launched = {} THEN NoManaged
                                  ELSE save_processes(st.processes, st.alive)
    /\ UNCHANGED <<mresponse, envVars, extraVars, workers, timer_thread, main_thread, lifeVars,
                   jobVars, response, requests, colVars,
                   senderVars>>

NextManager ==
    \/ \E w \in RequestWorkers, popen_ok \in BOOLEAN : launch_worker_endpoint(w, popen_ok)
    \/ \E w \in RequestWorkers : stop_worker_endpoint(w)
    \/ get_managed_workers_endpoint
    \/ \E w \in RequestWorkers : clear_launching_state(w)
    \/ master_restart
    \/ \E p \in Pids : os_fork(p)
    \/ \E p \in Pids : os_exit(p)

\* the master on either platform, with or without psutil and shell commands
InitAnyPlatform ==
    /\ InitJobs
    /\ InitManager
    /\ PSUTIL_AVAILABLE \in BOOLEAN
    /\ system \in Systems
    /\ os_commands \in BOOLEAN
    /\ stop_workers_on_master_exit = TRUE

\* the life of a master: start, automatic and requested launches, signals, exit
\* (the workers start no child processes here; process trees are the subject
\* of SpecManager)
InitLifecycle ==
    /\ InitJobs
    /\ InitManager
    /\ PSUTIL_AVAILABLE \in BOOLEAN
    /\ system \in Systems
    /\ os_commands \in BOOLEAN
    /\ stop_workers_on_master_exit \in BOOLEAN

NextLifecycle ==
    \/ \E w \in RequestWorkers, popen_ok \in BOOLEAN :
          master = "running" /\ launch_worker_endpoint(w, popen_ok)
    \/ \E popen_ok \in [ConfigWorkers -> BOOLEAN] : auto_launch_workers(popen_ok)
    \/ \E sig \in Signals : signal_handler(sig)
    \/ atexit_hook
    \/ master_restart
    \/ \E p \in Pids : os_exit(p)

SpecLifecycle == InitLifecycle /\ [][NextLifecycle]_vars

SpecManager == InitAnyPlatform /\ [][NextManager]_vars

\* --------------------------------------------- the start of the processes
\* a process that launch_worker has started (a ComfyUI instance with this
\* module installed) imports the module
import_module(p) ==
    /\ p \in os_alive
    /\ auto_launch[p] = "none"
    /\ auto_launch' = [auto_launch EXCEPT ![p] = ModuleImport(p \in COMFYUI_MASTER_PID)]
    /\ UNCHANGED <<processes, managed_processes, osVars, mresponse, envVars, extraVars, lifeVars,
                   workers, COMFYUI_MASTER_PID, timer_thread, main_thread,
                   jobVars, response, requests, colVars, senderVars>>

\* config["workers"] as the UI can have written it
WorkerConfigs ==
    {cfg \in [ConfigWorkers -> [id : ConfigWorkers, enabled : BOOLEAN, host : Hosts]] :
        \A w \in ConfigWorkers : cfg[w].id = w}

\* a master on Linux with psutil, started with or without the marker in its
\* environment, over any config
InitStartup ==
    /\ InitJobs
    /\ InitRegistry
    /\ \E has_marker \in BOOLEAN, cfg \in WorkerConfigs : InitStart(has_marker, cfg)
    /\ PSUTIL_AVAILABLE = TRUE
    /\ system = "Linux"
    /\ os_commands = TRUE
    /\ stop_workers_on_master_exit = TRUE

NextStartup ==
    \/ \E w \in RequestWorkers, popen_ok \in BOOLEAN : launch_worker_endpoint(w, popen_ok)
    \/ \E popen_ok \in [ConfigWorkers -> BOOLEAN] : auto_launch_workers(popen_ok)
    \/ \E p \in Pids : import_module(p)
    \/ get_managed_workers_endpoint
    \/ master_restart
    \/ \E p \in Pids : os_exit(p)

SpecStartup == InitStartup /\ [][NextStartup]_vars

\* ------------------------------------- the threads of the master, step by step
\* auto_launch_workers runs on the thread of threading.Timer, the request
\* handlers on the thread of the event loop; WorkerProcessManager has no lock,
\* so the steps of the two threads interleave. A handler has no await between
\* its steps, so the handlers do not interleave with each other.
ThreadVarsUnchanged ==
    UNCHANGED <<envVars, extraVars, lifeVars, workers, jobVars, response, requests, colVars,
                senderVars>>

\* the timer fires: auto_launch_workers loads the config, clears
\* config['managed_processes'] and enters its loop
timer_start ==
    /\ master = "running"
    /\ auto_launch[MasterProc] = "scheduled"
    /\ timer_thread.pc = "idle"
    /\ auto_launch' = [auto_launch EXCEPT ![MasterProc] = "fired"]
    /\ managed_processes' = NoManaged
    /\ timer_thread' = [IdleThread EXCEPT !.pc = "check", !.i = 1]
    /\ UNCHANGED <<processes, osVars, mresponse, COMFYUI_MASTER_PID, main_thread>>
    /\ ThreadVarsUnchanged

\* one pass of the loop up to the call of launch_worker: the checks of
\* enabled, host and "already running" for the next worker of the config
timer_check ==
    /\ timer_thread.pc = "check"
    /\ IF timer_thread.i > Len(WorkerList)
       THEN timer_thread' = IdleThread
       ELSE LET w == WorkerList[timer_thread.i]
                worker == WorkerConfig(w)
            IN IF ~worker.enabled \/ ~IsLocalHost(Lower(worker.host))
               THEN timer_thread' = [timer_thread EXCEPT !.i = @ + 1]
               ELSE IF processes[w] # NoEntry
                       /\ _is_process_running(processes[w].pid, os_alive)
               THEN timer_thread' = [timer_thread EXCEPT !.i = @ + 1]
               ELSE timer_thread' = [timer_thread EXCEPT !.pc = "launch", !.w = w]
    /\ UNCHANGED <<processes, managed_processes, osVars, mresponse, COMFYUI_MASTER_PID,
                   auto_launch, main_thread>>
    /\ ThreadVarsUnchanged

\* launch_worker up to subprocess.Popen, on the thread th; an exception is
\* caught by the caller
Popen(th, popen_ok) ==
    IF popen_ok
    THEN /\ next_pid < MaxPid
         /\ next_pid' = next_pid + 1
         /\ os_alive' = os_alive \cup {next_pid'}
         /\ os_parent' = [os_parent EXCEPT ![next_pid'] = 0]
         /\ COMFYUI_MASTER_PID' = LaunchEnv(COMFYUI_MASTER_PID, next_pid')
         /\ th' = [th EXCEPT !.pc = "record", !.pid = next_pid']
    ELSE /\ UNCHANGED <<osVars, COMFYUI_MASTER_PID>>
         /\ th' = IF th.i = 0 THEN IdleThread
                  ELSE [th EXCEPT !.pc = "check", !.i = @ + 1, !.w = ""]

\* the timer thread in launch_worker: Popen
timer_popen(popen_ok) ==
    /\ timer_thread.pc = "launch"
    /\ Popen(timer_thread, popen_ok)
    /\ UNCHANGED <<processes, managed_processes, mresponse, auto_launch, main_thread>>
    /\ ThreadVarsUnchanged

\* the timer thread in launch_worker: self.processes[worker_id] = {...} and
\* save_processes, then 'launching' = True and save_processes again
timer_record ==
    /\ timer_thread.pc = "record"
    /\ processes' = [processes EXCEPT ![timer_thread.w] =
                                          LaunchedInfo(timer_thread.pid, timer_thread.w)]
    /\ managed_processes' = save_processes(processes', os_alive)
    /\ timer_thread' = [timer_thread EXCEPT !.pc = "check", !.i = @ + 1, !.w = "",
                                            !.pid = 0]
    /\ UNCHANGED <<osVars, mresponse, COMFYUI_MASTER_PID, auto_launch, main_thread>>
    /\ ThreadVarsUnchanged

\* POST /distributed/launch_worker up to the call of launch_worker: the
\* lookup of the worker, the "already running" check and the eviction
launch_check(w) ==
    /\ master = "running"
    /\ main_thread.pc = "idle"
    /\ IF w \notin ConfigWorkers
       THEN /\ mresponse' = MResp("launch_worker", 404, "not found", 0, <<>>, NoManaged)
            /\ UNCHANGED <<processes, managed_processes, main_thread>>
       ELSE IF processes[w] # NoEntry /\ is_running(processes[w], os_alive)
       THEN /\ mresponse' = MResp("launch_worker", 409, "Worker already running (managed by UI)",
                                  processes[w].pid, processes[w].log_file, NoManaged)
            /\ UNCHANGED <<processes, managed_processes, main_thread>>
       ELSE /\ processes' = [processes EXCEPT ![w] = NoEntry]
            /\ managed_processes' = IF processes[w] # NoEntry
                                    THEN save_processes(processes', os_alive)
                                    ELSE managed_processes
            /\ main_thread' = [IdleThread EXCEPT !.pc = "launch", !.w = w]
            /\ UNCHANGED mresponse
    /\ UNCHANGED <<osVars, COMFYUI_MASTER_PID, auto_launch, timer_thread>>
    /\ ThreadVarsUnchanged

\* the handler in launch_worker: Popen
launch_popen(popen_ok) ==
    /\ main_thread.pc = "launch"
    /\ Popen(main_thread, popen_ok)
    /\ mresponse' = IF popen_ok THEN mresponse
                    ELSE MResp("launch_worker", 500, "Failed to launch worker",
                               0, <<>>, NoManaged)
    /\ UNCHANGED <<processes, managed_processes, auto_launch, timer_thread>>
    /\ ThreadVarsUnchanged

\* the handler in launch_worker: self.processes[worker_id] = {...} and
\* save_processes; then the response
launch_record ==
    /\ main_thread.pc = "record"
    /\ processes' = [processes EXCEPT ![main_thread.w] =
                                          LaunchedInfo(main_thread.pid, main_thread.w)]
    /\ managed_processes' = save_processes(processes', os_alive)
    /\ mresponse' = MResp("launch_worker", 200, "launched",
                          main_thread.pid, LogFile(main_thread.w), NoManaged)
    /\ main_thread' = IdleThread
    /\ UNCHANGED <<osVars, COMFYUI_MASTER_PID, auto_launch, timer_thread>>
    /\ ThreadVarsUnchanged

\* config["workers"] with both workers enabled and on this host
LocalWorkers ==
    [w \in ConfigWorkers |-> [id |-> w, enabled |-> TRUE, host |-> "localhost"]]

InitThreads ==
    /\ InitJobs
    /\ InitRegistry
    /\ InitStart(FALSE, LocalWorkers)
    /\ PSUTIL_AVAILABLE = TRUE
    /\ system = "Linux"
    /\ os_commands = TRUE
    /\ stop_workers_on_master_exit = TRUE

NextThreads ==
    \/ timer_start
    \/ timer_check
    \/ \E popen_ok \in BOOLEAN : timer_popen(popen_ok)
    \/ timer_record
    \/ \E w \in RequestWorkers : launch_check(w)
    \/ \E popen_ok \in BOOLEAN : launch_popen(popen_ok)
    \/ launch_record
    \/ main_thread.pc = "idle" /\ get_managed_workers_endpoint
    \/ master_restart
    \/ \E p \in Pids : os_exit(p)

SpecThreads == InitThreads /\ [][NextThreads]_vars

\* one run of the master: the timer thread, and the handlers of the launch,
\* stop and listing requests on the event loop
NextRace ==
    \/ timer_start
    \/ timer_check
    \/ \E popen_ok \in BOOLEAN : timer_popen(popen_ok)
    \/ timer_record
    \/ \E w \in RequestWorkers : launch_check(w)
    \/ \E popen_ok \in BOOLEAN : launch_popen(popen_ok)
    \/ launch_record
    \/ main_thread.pc = "idle" /\ get_managed_workers_endpoint
    \/ \E w \in RequestWorkers : main_thread.pc = "idle" /\ stop_worker_endpoint(w)
    \/ \E p \in Pids : os_exit(p)

SpecRace == InitThreads /\ [][NextRace]_vars

\* --------------------------------------------------------- DistributedSeed
\* the decimal digits of the worker ids and their values
Digit == ("0" :> 0) @@ ("1" :> 1) @@ ("2" :> 2)
\* "worker_"
WorkerPrefix == <<"w", "o", "r", "k", "e", "r", "_">>

\* s.startswith(p)
StartsWith(s, p) == Len(s) >= Len(p) /\ SubSeq(s, 1, Len(p)) = p

\* s.split(sep): the parts of s between the occurrences of the character sep
RECURSIVE Split(_, _)
Split(s, sep) ==
    IF \A i \in 1..Len(s) : s[i] # sep THEN <<s>>
    ELSE LET i == CHOOSE m \in 1..Len(s) : s[m] = sep /\ \A n \in 1..(m - 1) : s[n] # sep
         IN <<SubSeq(s, 1, i - 1)>> \o Split(SubSeq(s, i + 1, Len(s)), sep)

\* the value of a str of digits in which single underscores may separate
\* digits, as int() reads it: [ok |-> FALSE] for any other str
RECURSIVE Decimal(_, _, _)
Decimal(s, value, after_digit) ==
    IF s = <<>> THEN [ok |-> after_digit, value |-> value]
    ELSE IF Head(s) \in DOMAIN Digit
    THEN Decimal(Tail(s), 10 * value + Digit[Head(s)], TRUE)
    ELSE IF Head(s) = "_" /\ after_digit
    THEN Decimal(Tail(s), value, FALSE)
    ELSE [ok |-> FALSE, value |-> 0]

\* int(s): [ok |-> FALSE] stands for ValueError
int(s) ==
    IF s # <<>> /\ Head(s) \in {"-", "+"}
    THEN LET r == Decimal(Tail(s), 0, FALSE)
         IN IF r.ok /\ Head(s) = "-" THEN [ok |-> TRUE, value |-> 0 - r.value] ELSE r
    ELSE Decimal(s, 0, FALSE)

\* mutant: the offset of a worker is its index
OffsetIsIndex(worker_index) == worker_index

\* offset = worker_index + 1
Offset(worker_index) == worker_index + 1

\* what DistributedSeed.distribute returns
DistributedSeed_distribute(seed, is_worker, worker_id) ==
    IF ~is_worker THEN seed
    ELSE LET worker_index == IF StartsWith(worker_id, WorkerPrefix)
                             THEN int(Split(worker_id, "_")[2])
                             ELSE int(worker_id)
         IN IF worker_index.ok THEN seed + Offset(worker_index.value)
            ELSE seed

RECURSIVE Strings(_, _)
\* the strs of at most n characters of alphabet
Strings(alphabet, n) ==
    IF n = 0 THEN {<<>>}
    ELSE LET shorter == Strings(alphabet, n - 1)
         IN shorter \cup {Append(s, c) : s \in shorter, c \in alphabet}

\* the worker_id values the node is called with
WorkerIdStrings ==
    {p \o s : p \in {<<>>, WorkerPrefix, <<"w", "o", "r", "k", "e", "r">>},
              s \in Strings(DOMAIN Digit \cup {"_", "-", "x"}, MaxIdLen)}

\* the node is executed, on the master or on a worker
distribute(seed, is_worker, worker_id) ==
    /\ distribute_call' = [seed |-> seed, is_worker |-> is_worker, worker_id |-> worker_id,
                           ret |-> DistributedSeed_distribute(seed, is_worker, worker_id)]
    /\ UNCHANGED <<jobVars, response, requests, colVars, senderVars, processes,
                   managed_processes, osVars, mresponse, envVars, lifeVars, startVars,
                   kill_call, distributed_pending_tile_jobs>>

NextSeed ==
    \E seed \in 0..MaxSeed, is_worker \in BOOLEAN, worker_id \in WorkerIdStrings :
        distribute(seed, is_worker, worker_id)

SpecSeed == Init /\ [][NextSeed]_vars

\* --------------------------------- _kill_process_tree, signal by signal
\* A process that gets SIGTERM ends within the grace period or not; the call
\* that sends SIGKILL returns once the signal is queued, so the process has
\* ended by then or not.
KillVarsUnchanged ==
    UNCHANGED <<processes, managed_processes, next_pid, mresponse, envVars, lifeVars,
                startVars, distribute_call, distributed_pending_tile_jobs, jobVars,
                response, requests, colVars, senderVars>>

\* the parent of the processes once the processes of gone have ended
Reparent(gone) ==
    IF system = "Windows" THEN os_parent
    ELSE [c \in Pids |-> IF os_parent[c] \in gone THEN 0 ELSE os_parent[c]]

\* what _kill_process_tree returns
KillReturn(call, ret) == [call EXCEPT !.pc = "returned", !.ret = ret]

\* mutant: psutil.wait_procs reports no process as alive
wait_procs_none_alive(children, running, gone) == {}

\* the second component of psutil.wait_procs(children, timeout): the children
\* that run at the end of the grace period, in which those of gone have ended
wait_procs(children, running, gone) == (children \cap running) \ gone

\* psutil.Process(pid) and parent.children(recursive=True), or the way to the
\* OS commands without psutil
kill_begin(pid) ==
    /\ kill_call.pc \in {"idle", "returned"}
    /\ pid \in 1..next_pid
    /\ kill_call' =
          IF ~PSUTIL_AVAILABLE
          THEN [NoKill EXCEPT !.pc = "os_commands", !.pid = pid]
          ELSE IF pid \notin os_alive
          THEN KillReturn([NoKill EXCEPT !.pid = pid], FALSE)
          ELSE [NoKill EXCEPT !.pc = "terminate_children", !.pid = pid,
                              !.children = ChildrenRecursive({pid}, os_alive) \ {pid}]
    /\ UNCHANGED <<os_alive, os_parent>>
    /\ KillVarsUnchanged

\* "for child in children: child.terminate()"
kill_terminate_children ==
    /\ kill_call.pc = "terminate_children"
    /\ kill_call' = [kill_call EXCEPT !.pc = "wait_procs", !.terminated = kill_call.children]
    /\ UNCHANGED <<os_alive, os_parent>>
    /\ KillVarsUnchanged

\* gone, alive = psutil.wait_procs(children, timeout=PROCESS_WAIT_TIMEOUT)
kill_wait_procs(gone) ==
    /\ kill_call.pc = "wait_procs"
    /\ gone \subseteq kill_call.children \cap os_alive
    /\ os_alive' = os_alive \ gone
    /\ os_parent' = Reparent(gone)
    /\ kill_call' = [kill_call EXCEPT !.pc = "kill_children", !.waited = TRUE,
                                      !.alive = wait_procs(kill_call.children, os_alive, gone)]
    /\ KillVarsUnchanged

\* "for child in alive: child.kill()"; the children of dead have ended when
\* the loop is over
kill_children(dead) ==
    /\ kill_call.pc = "kill_children"
    /\ dead \subseteq kill_call.alive \cap os_alive
    /\ os_alive' = os_alive \ dead
    /\ os_parent' = Reparent(dead)
    /\ kill_call' = [kill_call EXCEPT !.pc = "terminate_parent", !.killed = kill_call.alive]
    /\ KillVarsUnchanged

\* parent.terminate(); parent.wait(timeout=PROCESS_WAIT_TIMEOUT): the process
\* is gone already (NoSuchProcess), ends in time, or the wait times out
kill_terminate_parent(exits) ==
    /\ kill_call.pc = "terminate_parent"
    /\ IF kill_call.pid \notin os_alive
       THEN /\ kill_call' = KillReturn(kill_call, TRUE)
            /\ UNCHANGED <<os_alive, os_parent>>
       ELSE IF exits
       THEN /\ kill_call' = KillReturn([kill_call EXCEPT !.parent = <<"terminate">>], TRUE)
            /\ os_alive' = os_alive \ {kill_call.pid}
            /\ os_parent' = Reparent({kill_call.pid})
       ELSE /\ kill_call' = [kill_call EXCEPT !.pc = "kill_parent",
                                              !.parent = <<"terminate">>]
            /\ UNCHANGED <<os_alive, os_parent>>
    /\ KillVarsUnchanged

\* "except psutil.TimeoutExpired: parent.kill()" and "return True"; a
\* NoSuchProcess of parent.kill() gets to "return False"
kill_parent(dead) ==
    /\ kill_call.pc = "kill_parent"
    /\ IF kill_call.pid \notin os_alive
       THEN /\ kill_call' = KillReturn(kill_call, FALSE)
            /\ UNCHANGED <<os_alive, os_parent>>
       ELSE /\ kill_call' = KillReturn([kill_call EXCEPT !.parent = Append(@, "kill")], TRUE)
            /\ os_alive' = IF dead THEN os_alive \ {kill_call.pid} ELSE os_alive
            /\ os_parent' = IF dead THEN Reparent({kill_call.pid}) ELSE os_parent
    /\ KillVarsUnchanged

\* the OS-specific commands: wmic and taskkill /F on Windows; pkill -TERM -P,
\* sleep, pkill -KILL -P and os.kill(pid, SIGKILL) elsewhere. dead: whether
\* the process pid has ended when the last command returns
kill_os_commands(dead) ==
    /\ kill_call.pc = "os_commands"
    /\ LET pid == kill_call.pid
           r == KillTreeOsCommands(pid, os_alive)
           direct == Children(pid, os_alive)
       IN /\ kill_call' =
                IF ~os_commands THEN KillReturn(kill_call, FALSE)
                ELSE KillReturn(
                        [kill_call EXCEPT
                            !.children = direct,
                            !.terminated = IF system = "Windows" THEN {} ELSE direct,
                            !.waited = system # "Windows",
                            !.killed = direct,
                            !.parent = IF r.ok THEN <<"kill">> ELSE <<>>],
                        r.ok)
          /\ os_alive' = IF r.ok /\ ~dead THEN r.alive \cup {pid} ELSE r.alive
          /\ os_parent' = Reparent(os_alive \ os_alive')
    /\ KillVarsUnchanged

NextKill ==
    \/ \E w \in ConfigWorkers :
          launch_worker_endpoint(w, TRUE)
    \/ \E p \in Pids : os_fork(p)
    \/ \E p \in Pids : os_exit(p)
    \/ \E pid \in Pids : kill_begin(pid)
    \/ kill_terminate_children
    \/ \E gone \in SUBSET Pids : kill_wait_procs(gone)
    \/ \E dead \in SUBSET Pids : kill_children(dead)
    \/ \E exits \in BOOLEAN : kill_terminate_parent(exits)
    \/ \E dead \in BOOLEAN : kill_parent(dead)
    \/ \E dead \in BOOLEAN : kill_os_commands(dead)

SpecKill == InitAnyPlatform /\ [][NextKill]_vars
\* ================================================================ claims
Returns(c) == pc[c] # "done" /\ pc'[c] = "done"
Range(seq) == {seq[i] : i \in 1..Len(seq)}
RECURSIVE SumBatch(_)
SumBatch(S) ==
    IF S = {} THEN 0
    ELSE LET w == CHOOSE x \in S : TRUE IN w_batch[w] + SumBatch(S \ {w})
\* the workers that have entered execute(is_worker=True) for job j
SendersOf(j) == {w \in WorkerIds : w_pc[w] # "idle" /\ w_job[w] = j}
Tail_(c) == SubSeq(result[c], Len(images[c]) + 1, Len(result[c]))
\* a is before b in lexicographic order
LexBefore(a, b) ==
    \E i \in 1..(Len(a) + 1) :
        /\ \A m \in 1..(i - 1) : m <= Len(b) /\ a[m] = b[m]
        /\ \/ i = Len(a) + 1 /\ Len(b) >= i
           \/ i <= Len(a) /\ i <= Len(b) /\ a[i] < b[i]

\* ---- C1 (SpecWorkers)
\* the job's workers are exactly the expected ones, each has sent its whole
\* batch, every request was accepted on the call's Queue, and all of them were
\* on the Queue when the call started
C1_Scenario(c) ==
    /\ SendersOf(multi_job_id[c]) = enabled_workers[c]
    /\ \A w \in enabled_workers[c] : w_pc[w] = "done"
    /\ Len(accepted[q[c]]) = SumBatch(enabled_workers[c])
    /\ initial_size[c] = Len(accepted[q[c]])

\* C1: when every expected worker has submitted its whole batch (indices
\* 0..n-1, is_last on the final one) before the collector call starts, the
\* call returns the master's images followed by exactly one tensor per
\* submitted fragment, none missing and none extra, each stored under the
\* worker and index it was submitted with.
C1_AllFragmentsReturned ==
    \A c \in Collectors :
        (pc[c] = "done" /\ enabled_workers[c] # {} /\ C1_Scenario(c)) =>
            LET log == accepted[q[c]] IN
            /\ SubSeq(result[c], 1, Len(images[c])) = images[c]
            /\ Len(Tail_(c)) = Len(log)
            /\ Range(Tail_(c)) = {log[i].tensor : i \in 1..Len(log)}
            /\ \A i \in 1..Len(log) :
                  /\ log[i].worker_id \in DOMAIN worker_images[c]
                  /\ log[i].image_index \in DOMAIN worker_images[c][log[i].worker_id]
                  /\ worker_images[c][log[i].worker_id][log[i].image_index] = log[i].tensor

C1_Witness ==
    \E c \in Collectors :
        /\ pc[c] = "done" /\ enabled_workers[c] = WorkerIds /\ C1_Scenario(c)
        /\ w_batch[<<1, 0>>] = 2 /\ w_batch[<<2>>] = 1
        /\ Len(result[c]) = Len(images[c]) + 3
        /\ accepted[q[c]][1].worker_id = <<2>>

\* ---- C2 (Spec)
C2_Keys(c) == {<<it.worker_id, it.image_index>> : it \in Range(taken[c])}
C2_KeyBefore(a, b) == LexBefore(a[1], b[1]) \/ (a[1] = b[1] /\ a[2] < b[2])
C2_Rank(c, key) == 1 + Cardinality({k \in C2_Keys(c) : C2_KeyBefore(k, key)})
C2_Matches(it, key) == it.worker_id = key[1] /\ it.image_index = key[2]
C2_LastTensor(c, key) ==
    LET i == CHOOSE i \in 1..Len(taken[c]) :
                 /\ C2_Matches(taken[c][i], key)
                 /\ \A m \in (i + 1)..Len(taken[c]) : ~C2_Matches(taken[c][m], key)
    IN taken[c][i].tensor

\* C2 (amended): the list returned is the master's images in their original
\* order, then one tensor per collected (worker_id, image_index) pair, the
\* pairs in ascending lexicographic order of the worker id string and, within
\* a worker, in ascending index; the tensor of a pair is that of the last
\* fragment collected for it.  The positions do not depend on arrival order.
C2_OrderedByWorkerThenIndex ==
    \A c \in Collectors :
        (pc[c] = "done" /\ enabled_workers[c] # {}) =>
            /\ SubSeq(result[c], 1, Len(images[c])) = images[c]
            /\ Len(result[c]) = Len(images[c]) + Cardinality(C2_Keys(c))
            /\ \A key \in C2_Keys(c) :
                  result[c][Len(images[c]) + C2_Rank(c, key)] = C2_LastTensor(c, key)

\* fragments of "2" then of "10" arrive in that order and are returned as 10, 2
C2_Witness ==
    \E c \in Collectors :
        /\ pc[c] = "done" /\ Len(taken[c]) = 2
        /\ taken[c][1].worker_id = <<2>> /\ taken[c][2].worker_id = <<1, 0>>
        /\ result[c] = images[c] \o <<taken[c][2].tensor, taken[c][1].tensor>>

C2_Triples(c) == {<<it.worker_id, it.image_index, it.tensor>> : it \in Range(taken[c])}
C2_TripleBefore(a, b) ==
    C2_KeyBefore(a, b) \/ (a[1] = b[1] /\ a[2] = b[2] /\ a[3] < b[3])
C2_TripleRank(c, t) == 1 + Cardinality({u \in C2_Triples(c) : C2_TripleBefore(u, t)})

\* C2 as claimed: the list returned is the master's images and then the
\* collected fragments, every one of them, in an order that the set of
\* collected (worker_id, image_index, tensor) triples fixes.
C2_FixedByTheSetOfTriples ==
    \A c \in Collectors :
        (pc[c] = "done" /\ enabled_workers[c] # {}) =>
            /\ SubSeq(result[c], 1, Len(images[c])) = images[c]
            /\ Len(result[c]) = Len(images[c]) + Cardinality(C2_Triples(c))
            /\ \A t \in C2_Triples(c) :
                  result[c][Len(images[c]) + C2_TripleRank(c, t)] = t[3]

C4_NoQueueWhenCollectReturns ==
    [][\A c \in Collectors :
        Returns(c) => pending_jobs'[multi_job_id'[c]] = NoQueue]_vars

\* ---- C5 (Spec)
\* C5: job_complete for a job id that has no queue answers 404 and changes
\* nothing: no queue is created for it and every Queue keeps its items.
C5_UnknownJobIsNoOp ==
    [][\A j \in JobIds :
        (/\ pending_jobs[j] = NoQueue
         /\ \E w \in WorkerIds, has_index \in BOOLEAN, k \in 0..MaxIdx,
               last_field \in IsLastFields :
                 job_complete_endpoint(j, w, has_index, k, last_field))
        => /\ response' = Resp("job_complete", 404)
           /\ pending_jobs' = pending_jobs
           /\ queues' = queues
           /\ next_q' = next_q
      ]_vars

\* a 404 was answered while another job's queue holds an item
C5_Witness ==
    /\ response = Resp("job_complete", 404)
    /\ \E j \in JobIds : pending_jobs[j] = NoQueue
    /\ \E j \in JobIds : pending_jobs[j] # NoQueue /\ queues[pending_jobs[j]] # <<>>

\* ---- C6 (Spec)
\* C6: prepare_job for a job id that has a queue answers 200 and leaves the job
\* table, that Queue and its items as they were.
C6_PrepareIsIdempotent ==
    [][\A j \in JobIds :
        (pending_jobs[j] # NoQueue /\ prepare_job_endpoint(j))
        => /\ response' = Resp("prepare_job", 200)
           /\ pending_jobs' = pending_jobs
           /\ queues' = queues
           /\ next_q' = next_q
      ]_vars

\* prepare_job answered while the job's queue already held two items
C6_Witness ==
    /\ response = Resp("prepare_job", 200)
    /\ \E j \in JobIds : pending_jobs[j] # NoQueue /\ Len(queues[pending_jobs[j]]) = 2

\* ---- C7 (Spec)
\* C7 as claimed: a collector call that returns without a timeout has every
\* id of enabled_worker_ids in workers_done.
C7_ReturnsOnlyWhenExpectedDone ==
    \A c \in Collectors :
        (pc[c] = "done" /\ enabled_workers[c] # {} /\ ~timed_out[c])
            => enabled_workers[c] \subseteq workers_done[c]
\* the processes of the tree of pid: pid and its running descendants
ProcessTree(pid) == {pid} \cup ChildrenRecursive({pid}, os_alive)

\* ---- C8 (SpecManager)
\* C8: in the state in which launch_worker_endpoint has answered with success,
\* what get_managed_workers returns has the worker with launching true and the
\* pid of the answer, and the launch has started exactly one process, which
\* runs under that pid.
C8_LaunchedWorkerIsManaged ==
    [][\A w \in ConfigWorkers :
        (/\ \E popen_ok \in BOOLEAN : launch_worker_endpoint(w, popen_ok)
         /\ mresponse'.status = 200)
        => /\ managed(processes', os_alive')[w].pid = mresponse'.pid
           /\ managed(processes', os_alive')[w].launching
           /\ mresponse'.pid \notin os_alive
           /\ os_alive' = os_alive \cup {mresponse'.pid}
           /\ Cardinality({v \in ConfigWorkers : processes'[v].pid = mresponse'.pid}) = 1
      ]_vars

\* a second worker was launched while the first is managed and running
C8_Witness ==
    /\ mresponse.op = "launch_worker" /\ mresponse.status = 200
    /\ processes["2"].pid = mresponse.pid /\ processes["2"].launching
    /\ mresponse.pid \in os_alive
    /\ processes["1"] # NoEntry /\ processes["1"].pid \in os_alive

\* ---- C9 (SpecManager)
\* C9: launch_worker_endpoint for a worker whose managed process is running
\* answers 409 with the pid and the log file of the entry, starts no process
\* and leaves the registry and the persisted entries as they were; as the
\* state is unchanged, a second call is answered the same way.
C9_AlreadyRunning ==
    [][\A w \in ConfigWorkers :
        (/\ processes[w] # NoEntry
         /\ processes[w].pid \in os_alive
         /\ \E popen_ok \in BOOLEAN : launch_worker_endpoint(w, popen_ok))
        => /\ mresponse'.status = 409
           /\ mresponse'.pid = processes[w].pid
           /\ mresponse'.log_file = processes[w].log_file
           /\ UNCHANGED <<processes, managed_processes, os_alive, os_parent, next_pid>>
           /\ ENABLED (/\ launch_worker_endpoint(w, TRUE)
                       /\ mresponse'.status = 409)
      ]_vars

\* the 409 was answered for an entry restored after a restart of the master
C9_Witness ==
    /\ mresponse.op = "launch_worker" /\ mresponse.status = 409
    /\ \E w \in ConfigWorkers :
          /\ processes[w] # NoEntry /\ ~processes[w].process
          /\ processes[w].pid = mresponse.pid /\ mresponse.pid \in os_alive

\* ---- C10 (SpecManager)
\* C10 as claimed: stop_worker_endpoint for a managed worker whose process is
\* running removes the worker from the registry and from the persisted
\* entries, and afterwards no process of the worker's process tree is running.
C10_StopKillsTheTree ==
    [][\A w \in ConfigWorkers :
        (/\ processes[w] # NoEntry
         /\ processes[w].pid \in os_alive
         /\ stop_worker_endpoint(w))
        => /\ processes'[w] = NoEntry
           /\ managed_processes'[w] = NoEntry
           /\ ProcessTree(processes[w].pid) \cap os_alive' = {}
      ]_vars

\* ---- C11 (SpecManager)
\* C11: stop_worker_endpoint for a worker id that has no registry entry answers
\* 404 "Worker not managed by UI" and changes neither the registry, the
\* persisted entries nor any process.
C11_NotManagedIsNoOp ==
    [][\A w \in RequestWorkers :
        (/\ w \notin ConfigWorkers \/ processes[w] = NoEntry
         /\ stop_worker_endpoint(w))
        => /\ mresponse'.status = 404
           /\ mresponse'.message = "Worker not managed by UI"
           /\ UNCHANGED <<processes, managed_processes, os_alive, os_parent, next_pid>>
      ]_vars

\* 404 was answered while another worker runs and the persisted entries still
\* name a worker that is no longer in the registry
C11_Witness ==
    /\ mresponse.op = "stop_worker" /\ mresponse.status = 404
    /\ processes["1"] = NoEntry /\ managed_processes["1"] # NoEntry
    /\ processes["2"] # NoEntry /\ processes["2"].pid \in os_alive

\* ---- C12 (SpecManager)
\* C12: the registry a new WorkerProcessManager loads has exactly the
\* persisted entries whose pid is a running process, each with the persisted
\* pid and log file and without a Popen object; the persisted entries whose
\* process has ended are left out, and the load goes through.
C12_LoadKeepsTheLiveEntries ==
    [][master_restart =>
        \A w \in ConfigWorkers :
            /\ processes'[w] # NoEntry
                  <=> (managed_processes[w] # NoEntry /\ managed_processes[w].pid \in os_alive)
            /\ processes'[w] # NoEntry =>
                  /\ processes'[w].pid = managed_processes[w].pid
                  /\ processes'[w].log_file = managed_processes[w].log_file
                  /\ ~processes'[w].process
      ]_vars

\* a registry just loaded from two persisted entries, one of a process that
\* runs and one of a process that has ended
C12_Witness ==
    /\ mresponse = NoMResponse
    /\ managed_processes["1"] # NoEntry /\ managed_processes["2"] # NoEntry
    /\ managed_processes["1"].pid \in os_alive /\ managed_processes["2"].pid \notin os_alive
    /\ processes["1"] # NoEntry /\ ~processes["1"].process
    /\ processes["2"] = NoEntry

\* ---- C13 (SpecLifecycle)
\* C13 as claimed: with stop_workers_on_master_exit set, whatever signals and
\* exit hook fire during the shutdown of one master process, cleanup_all is
\* never executed a second time, and it has been executed once when the
\* process has exited.
C13_CleanupExactlyOnce ==
    stop_workers_on_master_exit =>
        /\ cleanup_count <= 1
        /\ master = "exited" => cleanup_count = 1

\* ---- C14 (SpecLifecycle)
\* C14: an execution of cleanup_all calls stop_worker on every worker id that
\* is in the registry when it starts, goes on after a stop_worker that fails,
\* and comes to its end: every entry that holds a Popen object is gone
\* afterwards, and an entry that is left is one whose stop failed.
C14_CleanupStopsEveryWorker ==
    [][cleanup_count' = cleanup_count + 1 =>
          /\ stop_attempts' = {w \in ConfigWorkers : processes[w] # NoEntry}
          /\ managed_processes' = NoManaged
          /\ \A w \in ConfigWorkers :
                processes'[w] # NoEntry =>
                    /\ processes'[w] = processes[w]
                    /\ ~processes[w].process
                    /\ ~stop_worker_at(w, processes, os_alive).success
      ]_vars

\* cleanup_all has failed to stop worker "1", the first of the registry, and
\* has stopped worker "2" after it
C14_Witness ==
    /\ cleanup_count = 1
    /\ stop_attempts = {"1", "2"}
    /\ processes["1"] # NoEntry /\ processes["1"].pid = 1
    /\ processes["2"] = NoEntry
    /\ os_alive = {}

\* ---- C15 (SpecManager)
\* C15 as claimed: stop_worker_endpoint for a registry entry whose process has
\* ended, be it an entry with a Popen object or a restored one, removes the
\* entry and reports "Worker already stopped".
C15_AlreadyStoppedEvicts ==
    [][\A w \in ConfigWorkers :
        (/\ processes[w] # NoEntry
         /\ processes[w].pid \notin os_alive
         /\ stop_worker_endpoint(w))
        => /\ processes'[w] = NoEntry
           /\ mresponse'.message = "Worker already stopped"
      ]_vars

\* ---- C16 (SpecManager)
\* C16 as claimed: whenever stop_worker_endpoint for a managed worker reports
\* that the worker could not be stopped, the worker is no longer in the
\* registry after the call.
C16_StopErrorEvicts ==
    [][\A w \in ConfigWorkers :
        (/\ processes[w] # NoEntry
         /\ stop_worker_endpoint(w)
         /\ mresponse'.message = "Failed to stop worker process")
        => processes'[w] = NoEntry
      ]_vars

\* ---- C17 (SpecManager)
\* C17: what get_managed_workers returns has exactly the worker ids of the
\* registry entries whose process runs at the call, each with the pid, log
\* file and launching flag of its entry, and after the call the registry holds
\* those entries, unchanged, and no entry of a process found dead.
C17_ManagedAreTheLiveEntries ==
    [][get_managed_workers_endpoint =>
        \A w \in ConfigWorkers :
            LET live == processes[w] # NoEntry /\ processes[w].pid \in os_alive
                got == mresponse'.managed[w]
            IN /\ got # NoEntry <=> live
               /\ live => /\ got.pid = processes[w].pid
                          /\ got.log_file = processes[w].log_file
                          /\ got.launching = processes[w].launching
               /\ processes'[w] = IF live THEN processes[w] ELSE NoEntry
      ]_vars

\* the call returned worker "1" and dropped the entry of worker "2", whose
\* process had ended
C17_Witness ==
    /\ mresponse.op = "managed_workers"
    /\ mresponse.managed["1"] # NoEntry /\ mresponse.managed["1"].launching
    /\ mresponse.managed["2"] = NoEntry
    /\ processes["2"] = NoEntry
    /\ managed_processes["2"] # NoEntry /\ managed_processes["2"].pid \notin os_alive

\* ---- C18 (SpecManager)
\* C18: an entry that a step writes into the persisted entries, new or
\* changed, is the entry of a process that runs in the state the step ends
\* in: the entry of a process that has ended is never written.
C18_SnapshotHasOnlyLiveEntries ==
    [][\A w \in ConfigWorkers :
        (/\ managed_processes'[w] # NoEntry
         /\ managed_processes'[w] # managed_processes[w])
        => /\ managed_processes'[w].pid \in os_alive'
           /\ processes'[w] # NoEntry
           /\ managed_processes'[w].pid = processes'[w].pid
      ]_vars

\* a save has written the running worker "2" and left out worker "1", which
\* is in the registry with a process that has ended
C18_Witness ==
    /\ processes["1"] # NoEntry /\ processes["1"].pid \notin os_alive
    /\ managed_processes["1"] = NoEntry
    /\ processes["2"] # NoEntry /\ processes["2"].pid \in os_alive
    /\ managed_processes["2"] # NoEntry /\ managed_processes["2"].pid = processes["2"].pid

\* ---- C19 (SpecManager)
\* C19: clear_launching_state answers 200; for a worker in the registry it
\* makes the launching flag false and leaves the other fields of the entry and
\* the other entries as they were; for a worker that is not in the registry it
\* creates no entry; it starts and ends no process; and applied to a worker
\* whose flag is already false (a second application) it changes nothing.
C19_ClearLaunching ==
    [][\A w \in RequestWorkers :
        clear_launching_state(w) =>
            /\ mresponse'.status = 200
            /\ UNCHANGED <<os_alive, os_parent, next_pid>>
            /\ IF w \in ConfigWorkers /\ processes[w] # NoEntry
               THEN /\ processes' = [processes EXCEPT ![w].launching = FALSE]
                    /\ ~processes[w].launching => UNCHANGED managed_processes
               ELSE UNCHANGED <<processes, managed_processes>>
      ]_vars

\* the flag of worker "1" has been cleared, in the registry and in the
\* persisted entries, while worker "2" is still launching
C19_Witness ==
    /\ mresponse.op = "clear_launching"
    /\ processes["1"] # NoEntry /\ processes["1"].process /\ ~processes["1"].launching
    /\ managed_processes["1"] # NoEntry /\ ~managed_processes["1"].launching
    /\ processes["2"] # NoEntry /\ processes["2"].launching

\* ---- C20 (SpecLifecycle)
\* C20 as claimed: no step of the manager, be it auto_launch_workers or
\* launch_worker_endpoint, starts a process for a worker whose configured host
\* is a remote one.
C20_RemoteWorkersAreNeverLaunched ==
    [][\A w \in ConfigWorkers :
        (/\ processes'[w] # NoEntry
         /\ processes'[w].process
         /\ processes'[w].pid > next_pid)
        => IsLocalHost(WorkerConfig(w).host)
      ]_vars

\* ---- C23 (Spec)
\* the items a step added to the history of call c
C23_New(c) == SubSeq(taken'[c], Len(taken[c]) + 1, Len(taken'[c]))

\* C23: a step of a collector call for job j, its return included, leaves the
\* job table entry and every Queue of any other job as they were, and the
\* items it takes are taken off the front of one Queue of job j; the worker
\* tensors it returns are tensors it took; and a job_complete request for job
\* j changes no Queue of another job.
C23_JobsDoNotInterfere ==
    [][/\ \A c \in Collectors :
             (pc'[c] # pc[c] \/ taken'[c] # taken[c]) =>
                LET j == multi_job_id'[c] IN
                /\ \A k \in JobIds \ {j} : pending_jobs'[k] = pending_jobs[k]
                /\ \A r \in QueueRefs : r[1] # j => queues'[r] = queues[r]
                /\ taken'[c] = taken[c] \o C23_New(c)
                /\ \/ C23_New(c) = <<>> /\ queues' = queues
                   \/ \E r \in QueueRefs :
                         /\ r[1] = j
                         /\ queues[r] = C23_New(c) \o queues'[r]
                         /\ \A r2 \in QueueRefs \ {r} : queues'[r2] = queues[r2]
                /\ (Returns(c) /\ enabled_workers'[c] # {}) =>
                      Range(Tail_(c))' \subseteq {it.tensor : it \in Range(taken'[c])}
       /\ \A j \in JobIds, w \in WorkerIds, has_index \in BOOLEAN, k \in 0..MaxIdx,
             last_field \in IsLastFields :
                job_complete_endpoint(j, w, has_index, k, last_field) =>
                    \A r \in QueueRefs : r[1] # j => queues'[r] = queues[r]
      ]_vars

\* a call for one job has returned what it took while the queue of the other
\* job is still in the job table with its fragment
C23_Witness ==
    \E c \in Collectors, k \in JobIds :
        /\ pc[c] = "done" /\ Len(taken[c]) = 1 /\ Len(result[c]) = Len(images[c]) + 1
        /\ k # multi_job_id[c]
        /\ pending_jobs[k] # NoQueue /\ Len(queues[pending_jobs[k]]) = 1

\* ---- C24 (Spec)
\* the tensors of the fragments collected for one (worker_id, image_index)
C24_TensorsOf(c, key) == {it.tensor : it \in {x \in Range(taken[c]) : C2_Matches(x, key)}}

\* C24: the list a collector call returns has, after the master's images, as
\* many tensors as there are distinct (worker_id, image_index) pairs among the
\* fragments it collected, and for every such pair exactly one tensor, which
\* is the tensor of one of the fragments collected for that pair.
C24_DeduplicatedByIndex ==
    \A c \in Collectors :
        (pc[c] = "done" /\ enabled_workers[c] # {}) =>
            /\ Len(Tail_(c)) = Cardinality(C2_Keys(c))
            /\ DOMAIN worker_images[c] = {key[1] : key \in C2_Keys(c)}
            /\ \A key \in C2_Keys(c) :
                  /\ worker_images[c][key[1]][key[2]] \in C24_TensorsOf(c, key)
                  /\ Cardinality({m \in 1..Len(Tail_(c)) :
                                     Tail_(c)[m] \in C24_TensorsOf(c, key)}) = 1

\* two fragments with the same worker id and index were collected and one
\* tensor is returned for them
C24_Witness ==
    \E c \in Collectors :
        /\ pc[c] = "done" /\ Len(taken[c]) = 2
        /\ taken[c][1].worker_id = taken[c][2].worker_id
        /\ taken[c][1].image_index = taken[c][2].image_index
        /\ taken[c][1].tensor # taken[c][2].tensor
        /\ Len(result[c]) = Len(images[c]) + 1

\* ---- C25 (Spec)
\* C25: while a collector call waits in wait_for(q.get()), or has timed out
\* and not yet resumed, distributed_jobs_lock is free, and a prepare_job
\* request and a job_complete request, for the job of the call or another
\* one, can run to their end at once.
C25_WaitingHoldsNoLock ==
    \A c \in Collectors :
        pc[c] \in {"waiting", "timed_out"} =>
            /\ distributed_jobs_lock = Unlocked
            /\ \A j \in JobIds :
                  /\ ENABLED prepare_job_endpoint(j)
                  /\ requests < MaxSubmits =>
                        \A w \in WorkerIds :
                            ENABLED job_complete_endpoint(j, w, TRUE, 0, "False")

\* job_complete has put a fragment on the queue of a call that is waiting:
\* the queue is longer than it was when the call began
C25_Witness ==
    \E c \in Collectors :
        /\ pc[c] = "waiting"
        /\ response = Resp("job_complete", 200)
        /\ Len(queues[q[c]]) > initial_size[c]
        /\ taken[c] = <<>>

\* ---- C26 (SpecEndless)
\* C26 as claimed: a collector call that waits for fragments returns in the
\* end, whatever the senders do: send nothing, stop before is_last, or send
\* without end and never set is_last.
C26_EveryCallReturns ==
    \A c \in Collectors : (pc[c] = "waiting") ~> (pc[c] = "done")

\* ---- C29 (Spec)
\* C29 as claimed: once a collector call for job j has returned, and until j
\* gets a queue again, every job_complete request for j is answered 404 and
\* puts nothing on any Queue.
C29_ClosedJobRejectsFragments ==
    [][\A j \in JobIds :
        (/\ j \in closed
         /\ \E w \in WorkerIds, has_index \in BOOLEAN, k \in 0..MaxIdx,
               last_field \in IsLastFields :
                 job_complete_endpoint(j, w, has_index, k, last_field))
        => /\ response' = Resp("job_complete", 404)
           /\ queues' = queues
      ]_vars

\* ---- C30 (Spec)
\* the items on the queue of the job of call c
C30_Queued(c) ==
    IF pending_jobs[multi_job_id[c]] = NoQueue THEN <<>>
    ELSE queues[pending_jobs[multi_job_id[c]]]

\* C30: the step a collector call takes after its wait has timed out is its
\* only drain and its return: it takes every item that is on the job's queue
\* at that moment, in order, stores each under its worker id and index (the
\* later of two items with the same key stays), marks the worker of every
\* is_last item done, keeps what was collected before, leaves the queue
\* empty, and returns the reordered result without raising.
C30_TimeoutDrainsOnce ==
    [][\A c \in Collectors :
        (pc[c] = "timed_out" /\ pc'[c] # pc[c]) =>
            LET items == C30_Queued(c) IN
            /\ pc'[c] = "done" /\ timed_out'[c]
            /\ taken'[c] = taken[c] \o items
            /\ \A r \in QueueRefs : r[1] = multi_job_id[c] /\ r = pending_jobs[multi_job_id[c]]
                                       => queues'[r] = <<>>
            /\ workers_done'[c] =
                  workers_done[c] \cup {items[i].worker_id : i \in {n \in 1..Len(items) : items[n].is_last}}
            /\ \A i \in 1..Len(items) :
                  /\ items[i].worker_id \in DOMAIN worker_images'[c]
                  /\ items[i].image_index \in DOMAIN worker_images'[c][items[i].worker_id]
                  /\ (\A m \in (i + 1)..Len(items) : ~(/\ items[m].worker_id = items[i].worker_id
                                                       /\ items[m].image_index = items[i].image_index))
                        => worker_images'[c][items[i].worker_id][items[i].image_index] = items[i].tensor
            /\ \A w \in DOMAIN worker_images[c] :
                  /\ w \in DOMAIN worker_images'[c]
                  /\ DOMAIN worker_images[c][w] \subseteq DOMAIN worker_images'[c][w]
            /\ result'[c] = Reorder(images[c], worker_images'[c])
            /\ Len(result'[c]) = Len(images[c]) + Cardinality(C2_Keys(c)')
      ]_vars

\* a call with one expected worker has timed out with that worker not done,
\* and its drain has found the worker's is_last fragment
C30_Witness ==
    \E c \in Collectors :
        /\ pc[c] = "done" /\ timed_out[c]
        /\ Cardinality(enabled_workers[c]) = 1
        /\ workers_done[c] = enabled_workers[c]
        /\ Len(taken[c]) = 2 /\ ~taken[c][1].is_last /\ taken[c][2].is_last
        /\ taken[c][1].worker_id = taken[c][2].worker_id
        /\ Len(result[c]) = Len(images[c]) + 2

\* ---- C21 (SpecStartup)
\* the worker w of the config is enabled, runs on this host and has no entry
\* of a live process in the registry
C21_Launchable(w) ==
    /\ workers[w].enabled
    /\ Lower(workers[w].host) \in {"localhost", "127.0.0.1", ""}
    /\ ~(processes[w] # NoEntry /\ processes[w].pid \in os_alive)

C22_NoRecursiveLaunching ==
    /\ \A p \in Procs :
          auto_launch[p] \in {"scheduled", "fired"} => p \notin COMFYUI_MASTER_PID
    /\ \A p \in 1..next_pid :
          /\ p \in COMFYUI_MASTER_PID
          /\ auto_launch[p] \in {"none", "skipped"}

\* the master has run its auto-launch, and the worker it has started has
\* imported the module and has skipped the scheduling
C22_Witness ==
    /\ auto_launch[MasterProc] = "fired"
    /\ mresponse = NoMResponse
    /\ \E w \in ConfigWorkers :
          /\ processes[w] # NoEntry /\ processes[w].process
          /\ processes[w].pid \in os_alive
          /\ auto_launch[processes[w].pid] = "skipped"

\* ---- C27 (SpecThreads)
\* a step in which the manager starts a process for worker w
C27_Starts(w) ==
    /\ next_pid' > next_pid
    /\ \/ timer_thread.pc = "launch" /\ timer_thread.w = w /\ timer_thread'.pc = "record"
       \/ main_thread.pc = "launch" /\ main_thread.w = w /\ main_thread'.pc = "record"

\* C27 as claimed: however the launch requests, the auto-launch of the timer
\* thread and the listing of the managed workers interleave, the manager
\* starts a process for w only when the registry holds no entry of a live
\* process for w, and never while the other thread has started a process for
\* w that it has not recorded yet.
C27_OneProcessPerWorker ==
    [][\A w \in ConfigWorkers :
          C27_Starts(w) =>
              /\ ~(processes[w] # NoEntry /\ processes[w].pid \in os_alive)
              /\ ~(timer_thread.pc = "record" /\ timer_thread.w = w
                   /\ timer_thread.pid \in os_alive)
              /\ ~(main_thread.pc = "record" /\ main_thread.w = w
                   /\ main_thread.pid \in os_alive)]_vars

\* ---- C28 (SpecThreads)
\* the thread th is between its read of the registry (the "already running"
\* check) and the write of the entry that it bases on it
C28_InReadModifyWrite(th) == th.pc \in {"launch", "record"}

\* C28 as claimed: the timer thread and a request handler are never both
\* inside their read-modify-write of the registry.
C28_RegistryAccessSerialized ==
    ~(C28_InReadModifyWrite(timer_thread) /\ C28_InReadModifyWrite(main_thread))

\* ---- C31 (SpecKill)
\* a step of _kill_process_tree that sends a signal to the process pid itself
C31_SignalsParent == Len(kill_call'.parent) > Len(kill_call.parent)

\* before the process pid itself is signalled: terminate() has been called on
\* every enumerated child, the grace period is over, every enumerated child
\* that still runs has had kill() called on it; the first signal to pid is the
\* graceful one, and kill follows only when the wait for pid has timed out
C31_ChildrenFirst ==
    /\ kill_call.terminated = kill_call.children
    /\ kill_call.waited
    /\ (kill_call.children \cap os_alive) \subseteq kill_call.killed
    /\ kill_call'.parent \in {<<"terminate">>, <<"terminate", "kill">>}
    /\ kill_call'.parent = <<"terminate", "kill">> => kill_call.pc = "kill_parent"

C32_TrueOnlyIfRootDead ==
    (kill_call.pc = "returned" /\ kill_call.ret) => kill_call.pid \notin os_alive

\* ---- C33 (Spec)
\* C33 as claimed: when a collector call for a non-empty enabled_worker_ids
\* returns, every fragment that job_complete accepted on the Queue the call
\* closes is part of what the call returns.
C33_NoAcceptedFragmentLost ==
    [][\A c \in Collectors :
        (Returns(c) /\ enabled_workers'[c] # {})
        => \A i \in 1..Len(accepted[q[c]]) :
              accepted[q[c]][i].tensor \in Range(Tail_(c))']_vars

\* ---- C34 (SpecStatus)
\* C34 as claimed: queue_status_endpoint answers exists = true exactly when
\* distributed_pending_jobs, the table of prepare_job, job_complete and the
\* collector, holds a Queue for the job id.
C34_QueueStatusIsTheJobTable ==
    [][\A j \in JobIds :
        queue_status_endpoint(j) => response'.exists = (pending_jobs[j] # NoQueue)]_vars

\* ---- C35 (Spec)
\* C35: a collector call with an empty enabled_worker_ids returns in its first
\* step, without a wait; what it returns is the images it was given, in their
\* order; no Queue loses an item, the job table is as before and the call has
\* taken no item.
C35_EmptyWorkersReturnsImages ==
    [][\A c \in Collectors, j \in JobIds, imgs \in Batches :
        execute_begin(c, j, {}, imgs)
        => /\ pc'[c] = "done"
           /\ result'[c] = imgs
           /\ queues' = queues
           /\ pending_jobs' = pending_jobs
           /\ taken'[c] = taken[c]]_vars

\* a call with no enabled workers has returned its images while a fragment
\* waits on the Queue of its job
C35_Witness ==
    \E c \in Collectors :
        /\ pc[c] = "done" /\ enabled_workers[c] = {}
        /\ result[c] = images[c] /\ Len(images[c]) = 2
        /\ pending_jobs[multi_job_id[c]] # NoQueue
        /\ queues[pending_jobs[multi_job_id[c]]] # <<>>

\* ---- C39 (Spec)
\* C39 as claimed: no collector call ends with the KeyError of
\* "q = prompt_server.distributed_pending_jobs[multi_job_id]" after another
\* call for the same job id has deleted the job's Queue.
C39_NoCallFailsOnDeletedQueue ==
    \A c \in Collectors : pc[c] # "failed"

\* ---- C36 (SpecManager)
\* C36 as claimed: when the master starts again and load_processes reads the
\* persisted entries, every entry whose process runs is restored with the pid,
\* the log file and the launching flag that were saved.
C36_SaveLoadRoundTrip ==
    [][master_restart =>
        \A w \in ConfigWorkers :
            (managed_processes[w] # NoEntry /\ managed_processes[w].pid \in os_alive)
            => /\ processes'[w] # NoEntry
               /\ processes'[w].pid = managed_processes[w].pid
               /\ processes'[w].log_file = managed_processes[w].log_file
               /\ processes'[w].launching = managed_processes[w].launching]_vars

\* ---- C38 (SpecLifecycle)
\* a step of the handler of the signals and of the exit hook
C38_Handler == atexit_hook \/ \E sig \in Signals : signal_handler(sig)

\* C38: with stop_workers_on_master_exit off, the handler ends no process and
\* leaves the registry as it is, and every worker of the registry whose
\* process runs is in the persisted entries afterwards, with its pid; with the
\* setting on, the handler runs cleanup_all.
C38_DisabledPolicyStopsNothing ==
    [][C38_Handler =>
        IF stop_workers_on_master_exit
        THEN cleanup_count' = cleanup_count + 1
        ELSE /\ os_alive' = os_alive
             /\ processes' = processes
             /\ cleanup_count' = cleanup_count
             /\ \A w \in ConfigWorkers :
                   (processes[w] # NoEntry /\ processes[w].pid \in os_alive)
                   => /\ managed_processes'[w] # NoEntry
                      /\ managed_processes'[w].pid = processes[w].pid]_vars

\* the master has exited with the setting off; the worker it launched runs,
\* is in the registry and in the persisted entries
C38_Witness ==
    /\ ~stop_workers_on_master_exit
    /\ master = "exited"
    /\ \E w \in ConfigWorkers :
          /\ processes[w] # NoEntry /\ processes[w].process
          /\ processes[w].pid \in os_alive
          /\ managed_processes[w] # NoEntry /\ managed_processes[w].pid = processes[w].pid

\* ---- C37 (SpecRace)
\* C37 as claimed: however the steps of the launch, stop and listing handlers
\* and of the auto-launch thread interleave, every running process that the
\* manager has started is the pid of a registry entry, or of the entry that
\* the thread which started it is about to write.
C37_NoLiveWorkerOrphaned ==
    \A p \in 1..next_pid :
        p \in os_alive
        => \/ \E w \in ConfigWorkers : processes[w] # NoEntry /\ processes[w].pid = p
           \/ timer_thread.pc = "record" /\ timer_thread.pid = p
           \/ main_thread.pc = "record" /\ main_thread.pid = p

\* ---- C40 (SpecSeed)
\* the worker ids of index k: "worker_k" and "k"
C40_IdsOf(k) == {WorkerPrefix \o <<k>>, <<k>>}

\* C40: distribute returns the seed it was given on the master; on a worker
\* whose id is "worker_k" or "k" it returns seed + k + 1 (seed + 13 for
\* "12"); on a worker whose id has no digit it returns the seed; and for the
\* seed of the call, the master and the workers of different indices get
\* different seeds.
C40_SeedPerWorker ==
    LET c == distribute_call
    IN /\ ~c.is_worker => c.ret = c.seed
       /\ c.is_worker =>
             /\ \A k \in DOMAIN Digit :
                   c.worker_id \in C40_IdsOf(k) => c.ret = c.seed + Digit[k] + 1
             /\ c.worker_id = <<"1", "2">> => c.ret = c.seed + 13
             /\ (\A i \in 1..Len(c.worker_id) : c.worker_id[i] \notin DOMAIN Digit)
                   => c.ret = c.seed
       /\ \A k1, k2 \in DOMAIN Digit :
             \A id1 \in C40_IdsOf(k1), id2 \in C40_IdsOf(k2) :
                /\ DistributedSeed_distribute(c.seed, TRUE, id1)
                      # DistributedSeed_distribute(c.seed, FALSE, c.worker_id)
                /\ k1 # k2 => DistributedSeed_distribute(c.seed, TRUE, id1)
                                 # DistributedSeed_distribute(c.seed, TRUE, id2)

\* the node has run on the worker "worker_2" with seed 1 and has returned 4
C40_Witness ==
    /\ distribute_call.is_worker
    /\ distribute_call.worker_id = WorkerPrefix \o <<"2">>
    /\ distribute_call.seed = 1
    /\ distribute_call.ret = 4
====
